---- MODULE Spec2Model ----
(***************************************************************************)
(* Model of the playbook runbook engine: the runs store and the            *)
(* executions store (infrastructure/persistence.py), the engine operations *)
(* on them (service/engine.py), the workflow wrapper that drives a run or  *)
(* a resume node by node (cli/commands/run.py) and the out-of-band         *)
(* set-status command (cli/commands/set_status.py).                        *)
(***************************************************************************)
EXTENDS Integers, Sequences, FiniteSets, TLC

(***************************************************************************)
(* Bounds of the model.                                                    *)
(***************************************************************************)
\* the value of the wrapper's --max-retries option
MaxRetriesOption == 2

\* the number of run rows concurrent start_run calls create at most
MaxRuns == 3

(***************************************************************************)
(* Domain model (domain/models.py).                                        *)
(***************************************************************************)
NodeStatus == {"ok", "nok", "skipped", "pending", "running"}
RunStatus == {"ok", "nok", "running", "aborted"}
TriggerType == {"run", "resume"}

\* Optional[datetime]: None or a timestamp handed out by the clock
None == "None"
Now == "T"

\* the timestamps of successive calls of clock.now()
Times == <<"T", "T2", "T3">>

\* the title of the runbook, the workflow_name of its runs
Title == "wf"

\* node ids of the runbooks, in declaration (dict insertion) order
NodeIds == <<"a", "b", "c">>
Nodes == {NodeIds[i] : i \in 1..Len(NodeIds)}

\* rank of a node id under SQL's ORDER BY node_id
NodeRank(n) == CHOOSE i \in 1..Len(NodeIds) : NodeIds[i] = n

\* start nodes a resume may name: none, a node of the runbook, an unknown id
NoStartNode == ""
UnknownNode == "zz"
StartNodeArgs == Nodes \cup {NoStartNode, UnknownNode}

\* The critical and skip flags of the runbooks: a and b critical (scenario S2),
\* and c configured to be skipped. The parser rejects both flags on one node.
NodeFlags == { <<{"a", "b"}, {}>>, <<{}, {"c"}>> }

\* Runbooks the parser hands to the engine: a, b, c with implicit linear
\* dependencies (a missing depends_on is the previous declared node).
Runbooks ==
  { [ids |-> NodeIds,
     depends_on |-> [n \in Nodes |-> IF NodeRank(n) = 1 THEN << >>
                                     ELSE <<NodeIds[NodeRank(n) - 1]>>],
     critical |-> p[1],
     skip |-> p[2]] : p \in { q \in NodeFlags : q[1] \cap q[2] = {} } }

(***************************************************************************)
(* The runbook file and the parser. A node table of the file is a record   *)
(* of the keys it writes; a condition is the set of its conjuncts, so that *)
(* the literal "true" is the empty set.                                    *)
(***************************************************************************)
TrueClause == {}
has_failed(n) == [fn |-> "has_failed", node_id |-> n]
has_succeeded(n) == [fn |-> "has_succeeded", node_id |-> n]
\* a conjunct whose rendering raises: a name the template context does not have
undefined_name == [fn |-> "undefined", node_id |-> ""]

\* ConditionalDependency.to_when_clause
to_when_clause(dep) ==
  IF dep.condition = "none" THEN TrueClause
  ELSE IF dep.condition = "success" THEN {has_succeeded(dep.node_id)}
  ELSE {has_failed(dep.node_id)}

\* A dependency string is the record of its split at the first ":": the
\* node id in front of it and the condition behind it, "none" without a ":".
\* ConditionalDependency.parse accepts the conditions success and failure.
ParsedConditions == {"none", "success", "failure"}

\* variant: the condition behind the ":" is not verified
parse_dependencies_unchecked(deps) ==
  [error |-> "none",
   node_ids |-> [i \in 1..Len(deps) |-> deps[i].node_id],
   when_clause |-> UNION {to_when_clause(deps[i]) : i \in 1..Len(deps)}]

\* parse_dependencies: [error, node_ids, when_clause]
parse_dependencies(deps) ==
  IF \E i \in 1..Len(deps) : deps[i].condition \notin ParsedConditions
    THEN [error |-> "ValueError", node_ids |-> << >>, when_clause |-> TrueClause]
    ELSE [error |-> "none",
          node_ids |-> [i \in 1..Len(deps) |-> deps[i].node_id],
          when_clause |-> UNION {to_when_clause(deps[i]) : i \in 1..Len(deps)}]

Unconditional(n) == [node_id |-> n, condition |-> "none"]

\* the fields the node models declare, BaseNode and CommandNode
BaseNodeFields == {"id", "type", "depends_on", "critical", "name", "description",
                   "prompt_before", "prompt_after", "skip"}
CommandNodeFields == BaseNodeFields \cup {"command_name", "interactive", "timeout"}

\* what a command node table of the file may say about gating; node c is the
\* gated node and b the node its condition looks at
Gates ==
  { [has_when |-> FALSE, when |-> TrueClause, has_depends_on |-> FALSE, depends_on |-> << >>],
    [has_when |-> TRUE, when |-> TrueClause, has_depends_on |-> FALSE, depends_on |-> << >>],
    [has_when |-> TRUE, when |-> {has_failed("b")}, has_depends_on |-> FALSE, depends_on |-> << >>],
    [has_when |-> TRUE, when |-> {has_succeeded("b")}, has_depends_on |-> FALSE, depends_on |-> << >>],
    [has_when |-> FALSE, when |-> TrueClause, has_depends_on |-> TRUE,
     depends_on |-> <<[node_id |-> "b", condition |-> "failure"]>>],
    [has_when |-> FALSE, when |-> TrueClause, has_depends_on |-> TRUE,
     depends_on |-> <<Unconditional("b")>>],
    [has_when |-> TRUE, when |-> {has_succeeded("a")}, has_depends_on |-> TRUE,
     depends_on |-> <<[node_id |-> "b", condition |-> "failure"]>>],
    [has_when |-> FALSE, when |-> TrueClause, has_depends_on |-> TRUE,
     depends_on |-> <<[node_id |-> "b", condition |-> "success"]>>],
    [has_when |-> TRUE, when |-> {undefined_name}, has_depends_on |-> FALSE,
     depends_on |-> << >>],
    [has_when |-> FALSE, when |-> TrueClause, has_depends_on |-> TRUE,
     depends_on |-> <<[node_id |-> "b", condition |-> "done"]>>] }

Ungated == [has_when |-> FALSE, when |-> TrueClause, has_depends_on |-> FALSE,
            depends_on |-> << >>]

DocumentFlags == NodeFlags \cup { <<{"c"}, {"c"}>> }

NodeData(flags, gate, n) ==
  [critical |-> n \in flags[1], skip |-> n \in flags[2],
   has_when |-> gate.has_when, when |-> gate.when,
   has_depends_on |-> gate.has_depends_on, depends_on |-> gate.depends_on]

Documents ==
  { [ids |-> NodeIds,
     node_data |-> [n \in Nodes |->
        NodeData(flags, IF n = "c" THEN gate ELSE Ungated, n)]] :
    flags \in DocumentFlags, gate \in Gates }

NoDocument == [ids |-> << >>, node_data |-> << >>]
NoRunbook == [ids |-> << >>, depends_on |-> << >>, critical |-> {}, skip |-> {}]

\* hasattr(node, "when") for the node objects of a runbook
hasattr_when(rb, node_id) == "when" \in DOMAIN rb

\* parser.py 179-236 for the i-th node table: depends_on made explicit,
\* conditional dependencies folded into `when`
\* parser.py 179-215: the depends_on list of the i-th node table, the
\* previous node when the table has none
depends_on_of(doc, i) ==
  LET nd == doc.node_data[doc.ids[i]]
  IN IF nd.has_depends_on THEN nd.depends_on
     ELSE IF i > 1 THEN <<Unconditional(doc.ids[i - 1])>> ELSE << >>

node_data_of(doc, i) ==
  LET nd == doc.node_data[doc.ids[i]]
      pd == parse_dependencies(depends_on_of(doc, i))
  IN [nd EXCEPT !.has_depends_on = TRUE,
                !.depends_on = pd.node_ids,
                !.has_when = nd.has_when \/ pd.when_clause # TrueClause,
                !.when = IF pd.when_clause # TrueClause
                           THEN nd.when \cup pd.when_clause ELSE nd.when]

\* the keys of the dictionary handed to model_validate
keys_of(nd) ==
  {"id", "name", "type", "command_name", "critical", "skip", "depends_on"}
    \cup (IF nd.has_when THEN {"when"} ELSE {})

\* CommandNode.model_validate under extra = "forbid": the undeclared keys
extra_forbidden(nd) == keys_of(nd) \ CommandNodeFields

\* RunbookParser.parse on the node tables: [error, runbook]
parse(doc) ==
  LET n_of(i) == node_data_of(doc, i)
      rank == 1..Len(doc.ids)
  IN IF \E i \in rank : parse_dependencies(depends_on_of(doc, i)).error # "none"
       THEN [error |-> "ValueError", runbook |-> NoRunbook]
     ELSE IF \E i \in rank : extra_forbidden(n_of(i)) # {}
       THEN [error |-> "ValueError", runbook |-> NoRunbook]
     ELSE IF \E i \in rank : n_of(i).critical /\ n_of(i).skip
       THEN [error |-> "ValueError", runbook |-> NoRunbook]
     ELSE [error |-> "none",
           runbook |->
             [ids |-> doc.ids,
              depends_on |-> [n \in Nodes |-> n_of(NodeRank(n)).depends_on],
              critical |-> {n \in Nodes : n_of(NodeRank(n)).critical},
              skip |-> {n \in Nodes : n_of(NodeRank(n)).skip}]]


VARIABLES
  runbook,                  \* the parsed Runbook
  runs,                     \* rows of table runs
  executions,               \* rows of table executions
  pc,                       \* position of the workflow wrapper
  run_info,                 \* the wrapper's in-memory RunInfo
  nodes_to_run,             \* the wrapper's list of selected nodes
  idx,                      \* index into nodes_to_run of the current node
  execution,                \* the wrapper's in-memory record of the current attempt
  existing_executions_map,  \* snapshot taken at the start of _execute_nodes
  max_retries,              \* the wrapper's max_retries argument
  start_node,               \* the wrapper's start_node_id argument
  lastOp,                   \* the operation performed by the last step
  error,                    \* the exception the last operation ended with
  final_status,             \* the value update_run_status returned in the last step
  start_calls,              \* the start_run calls of concurrent processes
  execution_order,          \* the list a call of _get_execution_order returned
  document,                 \* the node tables of the runbook file given to `run`
  clock,                    \* the number of timestamps the clock has handed out
  failing,                  \* the statement of the store that raised in the last step
  dispatch,                 \* what the dispatch of the node did in the last step
  dependencies,             \* a depends_on list handed to parse_dependencies
  parsed_dependencies,      \* what parse_dependencies returned for it
  command_node,             \* the Command node handed to _execute_command_node
  io,                       \* what the operator answers and the process runner returns
  command_execution,        \* the record _execute_command_node returned
  plugins,                  \* PluginRegistry._plugins: the cached instances by name
  initializations,          \* per plugin name, the instances whose initialize returned
  plugin_call,              \* the last call of the registry: what was asked, what came back
  retried,                  \* what retry_node_execution returned, and the attempts it ran
  cycle_check               \* what _has_cycles and _get_execution_order said of the runbook

vars == <<runbook, runs, executions, pc, run_info, nodes_to_run, idx, execution,
          existing_executions_map, max_retries, start_node, lastOp, error,
          final_status, start_calls, execution_order, document, clock,
          dependencies, parsed_dependencies, dispatch, failing,
          command_node, io, command_execution, plugins, initializations,
          plugin_call, retried, cycle_check>>

\* the node executors and the ports they call
ports == <<command_node, io, command_execution, plugins, initializations,
           plugin_call, retried, cycle_check>>

\* the state of the operations modelled apart from the workflow wrapper
apart == <<start_calls, execution_order, document, clock, dependencies,
           parsed_dependencies, failing, ports>>

NoRunInfo == [workflow_name |-> "", run_id |-> 0, end_time |-> None,
              status |-> "running", nodes_ok |-> 0, nodes_nok |-> 0,
              nodes_skipped |-> 0, trigger |-> "run"]

NoExecution == [workflow_name |-> "", run_id |-> 0, node_id |-> "", attempt |-> 0,
                end_time |-> None, status |-> "pending", exception |-> None,
                operator_decision |-> None]

(***************************************************************************)
(* Runs store (SQLiteRunRepository).                                       *)
(***************************************************************************)
RunIdsOf(rows, wf) == {r.run_id : r \in {x \in rows : x.workflow_name = wf}}

MaxOf(S) == CHOOSE m \in S : \A x \in S : x <= m

\* variant: the maximum is taken over the runs of all workflows
NextRunId_all_workflows(rows, wf) ==
  IF rows = {} THEN 1 ELSE MaxOf({r.run_id : r \in rows}) + 1

\* SELECT COALESCE(MAX(run_id), 0) + 1 FROM runs WHERE workflow_name = ?
NextRunId(rows, wf) ==
  IF RunIdsOf(rows, wf) = {} THEN 1 ELSE MaxOf(RunIdsOf(rows, wf)) + 1

create_run(rows, ri) ==
  rows \cup {[ri EXCEPT !.run_id = NextRunId(rows, ri.workflow_name)]}

\* INSERT INTO runs ...: the primary key (workflow_name, run_id) is unique
insert_run(rows, ri) ==
  IF \E r \in rows : r.workflow_name = ri.workflow_name /\ r.run_id = ri.run_id
    THEN [error |-> "IntegrityError", runs |-> rows]
    ELSE [error |-> "none", runs |-> rows \cup {ri}]

\* UPDATE runs SET end_time, status, nodes_ok, nodes_nok, nodes_skipped
\* WHERE workflow_name = ? AND run_id = ?   (trigger is not written)
update_run(rows, ri) ==
  { IF r.workflow_name = ri.workflow_name /\ r.run_id = ri.run_id
      THEN [r EXCEPT !.end_time = ri.end_time, !.status = ri.status,
                     !.nodes_ok = ri.nodes_ok, !.nodes_nok = ri.nodes_nok,
                     !.nodes_skipped = ri.nodes_skipped]
      ELSE r : r \in rows }

HasRun(rows, wf, rid) == \E r \in rows : r.workflow_name = wf /\ r.run_id = rid

get_run(rows, wf, rid) ==
  CHOOSE r \in rows : r.workflow_name = wf /\ r.run_id = rid

(***************************************************************************)
(* Executions store (SQLiteNodeExecutionRepository).                       *)
(***************************************************************************)
SameKey(x, y) ==
  /\ x.workflow_name = y.workflow_name
  /\ x.run_id = y.run_id
  /\ x.node_id = y.node_id
  /\ x.attempt = y.attempt

\* the primary key rejects an INSERT of an existing key
KeyExists(rows, e) == \E x \in rows : SameKey(x, e)

create_execution(rows, e) == rows \cup {e}

\* variant: the UPDATE writes nothing but the exception text
update_execution_exception_only(rows, e) ==
  { IF SameKey(x, e) THEN [x EXCEPT !.exception = e.exception]
                     ELSE x : x \in rows }

\* variant: the UPDATE does not write the status
update_execution_without_status(rows, e) ==
  { IF SameKey(x, e) THEN [x EXCEPT !.end_time = e.end_time,
                                    !.exception = e.exception,
                                    !.operator_decision = e.operator_decision]
                     ELSE x : x \in rows }

update_execution(rows, e) ==
  { IF SameKey(x, e) THEN [x EXCEPT !.end_time = e.end_time, !.status = e.status,
                                    !.exception = e.exception,
                                    !.operator_decision = e.operator_decision]
                     ELSE x : x \in rows }

RowsOfRun(rows, wf, rid) == {x \in rows : x.workflow_name = wf /\ x.run_id = rid}

\* ORDER BY node_id, attempt
RowBefore(x, y) ==
  \/ NodeRank(x.node_id) < NodeRank(y.node_id)
  \/ (x.node_id = y.node_id /\ x.attempt <= y.attempt)

RECURSIVE SortRows(_)
SortRows(S) ==
  IF S = {} THEN << >>
  ELSE LET first == CHOOSE x \in S : \A y \in S : RowBefore(x, y)
       IN <<first>> \o SortRows(S \ {first})

get_executions(rows, wf, rid) == SortRows(RowsOfRun(rows, wf, rid))

\* ORDER BY attempt DESC LIMIT 1; NoExecution stands for None
get_latest_execution_attempt(rows, wf, rid, n) ==
  LET S == {x \in RowsOfRun(rows, wf, rid) : x.node_id = n}
  IN IF S = {} THEN NoExecution
     ELSE CHOOSE x \in S : \A y \in S : y.attempt <= x.attempt

(***************************************************************************)
(* Engine (RunbookEngine).                                                 *)
(***************************************************************************)
\* depth-first topological sort; st = [visited, temp, order, cycle]
RECURSIVE visit(_, _, _)
RECURSIVE visit_deps(_, _, _, _)
visit(rb, node_id, st) ==
  IF st.cycle THEN st
  ELSE IF node_id \in st.temp THEN [st EXCEPT !.cycle = TRUE]
  ELSE IF node_id \in st.visited THEN st
  ELSE LET st1 == [st EXCEPT !.temp = @ \cup {node_id}]
           st2 == visit_deps(rb, rb.depends_on[node_id], 1, st1)
       IN IF st2.cycle THEN st2
          ELSE [st2 EXCEPT !.temp = @ \ {node_id},
                           !.visited = @ \cup {node_id},
                           !.order = Append(@, node_id)]

visit_deps(rb, deps, i, st) ==
  IF i > Len(deps) \/ st.cycle THEN st
  ELSE visit_deps(rb, deps, i + 1, visit(rb, deps[i], st))

RECURSIVE visit_all(_, _, _)
visit_all(rb, i, st) ==
  IF i > Len(rb.ids) \/ st.cycle THEN st
  ELSE visit_all(rb, i + 1,
                 IF rb.ids[i] \in st.visited THEN st ELSE visit(rb, rb.ids[i], st))

\* variant: the nodes in declaration order, dependencies not looked at
declaration_order(rb) == rb.ids

\* variant: every node is put before its dependencies
RECURSIVE Reversed(_)
Reversed(seq) == IF seq = << >> THEN << >> ELSE Append(Reversed(Tail(seq)), Head(seq))

dependents_first_order(rb) ==
  Reversed(visit_all(rb, 1, [visited |-> {}, temp |-> {}, order |-> << >>,
                             cycle |-> FALSE]).order)

_get_execution_order(rb) ==
  visit_all(rb, 1, [visited |-> {}, temp |-> {}, order |-> << >>, cycle |-> FALSE]).order

\* _get_execution_order raises ValueError("Cycle detected at node ...")
cycle_detected(rb) ==
  visit_all(rb, 1, [visited |-> {}, temp |-> {}, order |-> << >>, cycle |-> FALSE]).cycle

\* the dict after "for execution in executions: ..." keeps, per node, the
\* first record met with the highest attempt
RECURSIVE latest_fold(_, _, _)
latest_fold(execs, i, m) ==
  IF i > Len(execs) THEN m
  ELSE LET e == execs[i]
       IN latest_fold(execs, i + 1,
            IF e.node_id \notin DOMAIN m \/ e.attempt > m[e.node_id].attempt
              THEN [n \in DOMAIN m \cup {e.node_id} |->
                      IF n = e.node_id THEN e ELSE m[n]]
              ELSE m)

\* variant: the comparison of attempts reversed, the earliest attempt is kept
RECURSIVE earliest_fold(_, _, _)
earliest_fold(execs, i, m) ==
  IF i > Len(execs) THEN m
  ELSE LET e == execs[i]
       IN earliest_fold(execs, i + 1,
            IF e.node_id \notin DOMAIN m \/ e.attempt < m[e.node_id].attempt
              THEN [n \in DOMAIN m \cup {e.node_id} |->
                      IF n = e.node_id THEN e ELSE m[n]]
              ELSE m)

earliest_executions_per_node(execs) == earliest_fold(execs, 1, << >>)

_get_latest_executions_per_node(execs) == latest_fold(execs, 1, << >>)

CountStatus(latest, s) == Cardinality({n \in DOMAIN latest : latest[n].status = s})

CountRows(execs, s) == Cardinality({i \in 1..Len(execs) : execs[i].status = s})

\* variant: the counts are added to the counts the RunInfo already has
update_run_status_accumulating(rb, ri, rows, now) ==
  LET latest_executions ==
        _get_latest_executions_per_node(get_executions(rows, Title, ri.run_id))
      nodes_ok == ri.nodes_ok + CountStatus(latest_executions, "ok")
      nodes_nok == ri.nodes_nok + CountStatus(latest_executions, "nok")
      nodes_skipped == ri.nodes_skipped + CountStatus(latest_executions, "skipped")
      ri1 == [ri EXCEPT !.nodes_ok = nodes_ok, !.nodes_nok = nodes_nok,
                        !.nodes_skipped = nodes_skipped]
  IN IF nodes_ok + nodes_nok + nodes_skipped = Len(rb.ids)
       THEN LET st == IF nodes_nok > 0 THEN "nok" ELSE "ok"
            IN [ret |-> st,
                run_info |-> [ri1 EXCEPT !.status = st, !.end_time = now]]
       ELSE [ret |-> "running", run_info |-> ri1]

\* returns the value returned and the RunInfo as left in memory; every change
\* of the RunInfo is followed by run_repo.update_run, so it is also persisted
update_run_status_at(rb, ri, rows, now) ==
  LET execs == get_executions(rows, Title, ri.run_id)
      latest_executions == _get_latest_executions_per_node(execs)
      nodes_ok == CountStatus(latest_executions, "ok")
      nodes_nok == CountStatus(latest_executions, "nok")
      nodes_skipped == CountStatus(latest_executions, "skipped")
      ri1 == [ri EXCEPT !.nodes_ok = nodes_ok, !.nodes_nok = nodes_nok,
                        !.nodes_skipped = nodes_skipped]
      critical_failure ==
        \E n \in DOMAIN latest_executions :
          /\ n \in Nodes
          /\ n \in rb.critical
          /\ latest_executions[n].status = "nok"
      total_completed == nodes_ok + nodes_nok + nodes_skipped
  IN IF critical_failure
       THEN [ret |-> "nok",
             run_info |-> [ri1 EXCEPT !.status = "nok", !.end_time = now]]
     ELSE IF total_completed = Len(rb.ids)
       THEN LET st == IF nodes_nok > 0 THEN "nok" ELSE "ok"
            IN [ret |-> st,
                run_info |-> [ri1 EXCEPT !.status = st, !.end_time = now]]
     ELSE [ret |-> "running", run_info |-> ri1]

\* variant: the counts taken over all executions instead of the latest per node
update_run_status_all_executions(rb, ri, rows) ==
  LET execs == get_executions(rows, Title, ri.run_id)
      latest_executions == _get_latest_executions_per_node(execs)
      nodes_ok == CountRows(execs, "ok")
      nodes_nok == CountRows(execs, "nok")
      nodes_skipped == CountRows(execs, "skipped")
      ri1 == [ri EXCEPT !.nodes_ok = nodes_ok, !.nodes_nok = nodes_nok,
                        !.nodes_skipped = nodes_skipped]
      critical_failure ==
        \E n \in DOMAIN latest_executions :
          n \in rb.critical /\ latest_executions[n].status = "nok"
  IN IF critical_failure
       THEN [ret |-> "nok",
             run_info |-> [ri1 EXCEPT !.status = "nok", !.end_time = Now]]
     ELSE IF nodes_ok + nodes_nok + nodes_skipped = Len(rb.ids)
       THEN LET st == IF nodes_nok > 0 THEN "nok" ELSE "ok"
            IN [ret |-> st,
                run_info |-> [ri1 EXCEPT !.status = st, !.end_time = Now]]
     ELSE [ret |-> "running", run_info |-> ri1]

\* variant: no check for a failed critical node
update_run_status_no_critical(rb, ri, rows) ==
  LET latest_executions ==
        _get_latest_executions_per_node(get_executions(rows, Title, ri.run_id))
      nodes_ok == CountStatus(latest_executions, "ok")
      nodes_nok == CountStatus(latest_executions, "nok")
      nodes_skipped == CountStatus(latest_executions, "skipped")
      ri1 == [ri EXCEPT !.nodes_ok = nodes_ok, !.nodes_nok = nodes_nok,
                        !.nodes_skipped = nodes_skipped]
  IN IF nodes_ok + nodes_nok + nodes_skipped = Len(rb.ids)
       THEN LET st == IF nodes_nok > 0 THEN "nok" ELSE "ok"
            IN [ret |-> st,
                run_info |-> [ri1 EXCEPT !.status = st, !.end_time = Now]]
       ELSE [ret |-> "running", run_info |-> ri1]

\* update_run_status at the one time the model of the workflow wrapper has
update_run_status(rb, ri, rows) == update_run_status_at(rb, ri, rows, Now)

(***************************************************************************)
(* Workflow wrapper helpers (cli/commands/run.py).                         *)
(***************************************************************************)
\* "for execution in existing_executions: node_executions[node_id] = execution"
RECURSIVE last_fold(_, _, _)
last_fold(execs, i, m) ==
  IF i > Len(execs) THEN m
  ELSE LET e == execs[i]
       IN last_fold(execs, i + 1,
            [n \in DOMAIN m \cup {e.node_id} |-> IF n = e.node_id THEN e ELSE m[n]])

\* variant: the first record of a node is kept instead of the last
RECURSIVE first_fold(_, _, _)
first_fold(execs, i, m) ==
  IF i > Len(execs) THEN m
  ELSE LET e == execs[i]
       IN first_fold(execs, i + 1,
            IF e.node_id \in DOMAIN m THEN m
            ELSE [n \in DOMAIN m \cup {e.node_id} |->
                    IF n = e.node_id THEN e ELSE m[n]])

node_executions_map_first(execs) == first_fold(execs, 1, << >>)

node_executions_map(execs) == last_fold(execs, 1, << >>)

IndexOf(seq, x) == CHOOSE i \in 1..Len(seq) : seq[i] = x /\ \A j \in 1..(i - 1) : seq[j] # x

InSeq(seq, x) == \E i \in 1..Len(seq) : seq[i] = x

RECURSIVE select_from(_, _, _)
select_from(order, i, node_executions) ==
  IF i > Len(order) THEN << >>
  ELSE (IF order[i] \notin DOMAIN node_executions
           \/ node_executions[order[i]].status \notin {"ok", "skipped"}
          THEN <<order[i]>> ELSE << >>)
       \o select_from(order, i + 1, node_executions)

\* [error, nodes]: the nodes selected, or the ExecutionError raised
_determine_nodes_to_run(rows, ri, order, start_node_id) ==
  IF ri.trigger = "run" THEN [error |-> "none", nodes |-> order]
  ELSE LET node_executions ==
             node_executions_map(get_executions(rows, Title, ri.run_id))
       IN IF start_node_id # NoStartNode /\ ~InSeq(order, start_node_id)
            THEN [error |-> "ExecutionError", nodes |-> << >>]
            ELSE LET start_idx == IF start_node_id # NoStartNode
                                    THEN IndexOf(order, start_node_id) ELSE 1
                 IN [error |-> "none",
                     nodes |-> select_from(order, start_idx, node_executions)]

(***************************************************************************)
(* State machine.                                                          *)
(***************************************************************************)
\* processes that call start_run at the same time, and the workflows they run
Callers == {"p1", "p2"}
Workflows == {Title, "other"}
NoCall == [pc |-> "idle", workflow_name |-> "", run_id |-> 0]
NoParsedDependencies == [error |-> "none", node_ids |-> << >>, when_clause |-> TrueClause]

NoCommandNode == [prompt_before |-> "", prompt_after |-> ""]
NoIO == [before |-> TRUE, after |-> TRUE, exit_code |-> 0, raises |-> FALSE]
NoCommandExecution ==
  [status |-> "pending", operator_decision |-> None, exit_code |-> None,
   exception |-> None, calls |-> << >>]

\* the names the registry is asked for; PluginClasses are those registered
PluginNames == {"p", "q", "zz"}
PluginClasses == {"p", "q"}
NoInstance == [name |-> "", id |-> 0, config |-> ""]
NoPluginCall == [node_id |-> "", name |-> "", config |-> "", instance |-> NoInstance]

NoCycleCheck == [has_cycles |-> "none", order |-> "none"]

NoRetried ==
  [status |-> "none", execution |-> NoExecution, total_attempts |-> 0,
   attempts |-> {}]

\* a registry that initialized nothing yet, no retry_node_execution called
InitRegistry ==
  /\ plugins = << >>
  /\ initializations = [n \in PluginClasses |-> 0]
  /\ plugin_call = NoPluginCall
  /\ retried = NoRetried
  /\ cycle_check = NoCycleCheck

\* no executor has been called
InitPorts ==
  /\ command_node = NoCommandNode
  /\ io = NoIO
  /\ command_execution = NoCommandExecution
  /\ InitRegistry

\* before the first command: empty stores, no wrapper at work
InitState ==
  /\ runs = {}
  /\ executions = {}
  /\ pc = "idle"
  /\ run_info = NoRunInfo
  /\ nodes_to_run = << >>
  /\ idx = 0
  /\ execution = NoExecution
  /\ existing_executions_map = << >>
  /\ max_retries = 0
  /\ start_node = NoStartNode
  /\ lastOp = "init"
  /\ error = "none"
  /\ final_status = "none"
  /\ start_calls = [p \in Callers |-> NoCall]
  /\ execution_order = << >>
  /\ clock = 0
  /\ dependencies = << >>
  /\ parsed_dependencies = NoParsedDependencies
  /\ dispatch = "none"
  /\ failing = "none"
  /\ InitPorts

Init ==
  /\ runbook \in Runbooks
  /\ document = NoDocument
  /\ InitState

\* the wrapper returns or dies with an exception: its locals are gone
WrapperEnds ==
  /\ pc' = "idle"
  /\ run_info' = NoRunInfo
  /\ nodes_to_run' = << >>
  /\ idx' = 0
  /\ execution' = NoExecution
  /\ existing_executions_map' = << >>
  /\ max_retries' = 0

\* _execute_nodes up to the first node: the snapshot of the existing executions
EnterExecuteNodes(ri, nodes, mr) ==
  /\ pc' = "execute"
  /\ run_info' = ri
  /\ nodes_to_run' = nodes
  /\ idx' = 1
  /\ execution' = NoExecution
  /\ existing_executions_map' =
       node_executions_map(get_executions(executions, Title, ri.run_id))
  /\ max_retries' = mr

\* engine.start_run: a new RUNNING run with trigger RUN
\* the node ids of a runbook, the keys of runbook.nodes
NodesOf(rb) == {rb.ids[i] : i \in 1..Len(rb.ids)}

\* engine._has_cycles: the depth-first visit with the sets visited and temp
RECURSIVE cycle_visit(_, _, _), cycle_visit_deps(_, _, _, _)
cycle_visit(rb, node_id, st) ==
  IF st.found THEN st
  ELSE IF node_id \in st.temp THEN [st EXCEPT !.found = TRUE]
  ELSE IF node_id \in st.visited THEN st
  ELSE LET st1 == [st EXCEPT !.temp = @ \cup {node_id}]
           st2 == cycle_visit_deps(rb, rb.depends_on[node_id], 1, st1)
       IN IF st2.found THEN st2
          ELSE [st2 EXCEPT !.temp = @ \ {node_id}, !.visited = @ \cup {node_id}]

cycle_visit_deps(rb, deps, i, st) ==
  IF i > Len(deps) \/ st.found THEN st
  ELSE cycle_visit_deps(rb, deps, i + 1, cycle_visit(rb, deps[i], st))

RECURSIVE cycle_visit_all(_, _, _)
cycle_visit_all(rb, i, st) ==
  IF i > Len(rb.ids) \/ st.found THEN st
  ELSE cycle_visit_all(rb, i + 1,
         IF rb.ids[i] \in st.visited THEN st ELSE cycle_visit(rb, rb.ids[i], st))

\* variant: the cycle check finds nothing
no_cycle_check(rb) == FALSE

_has_cycles(rb) ==
  cycle_visit_all(rb, 1, [visited |-> {}, temp |-> {}, found |-> FALSE]).found

\* a `when` the template grammar does not accept
invalid_syntax == [fn |-> "invalid_syntax", node_id |-> ""]

\* engine.validate: the set of error messages, by their kind
validate(rb) ==
  LET non_existent ==
        \E n \in NodesOf(rb) : \E k \in 1..Len(rb.depends_on[n]) :
          rb.depends_on[n][k] \notin NodesOf(rb)
      bad_when ==
        \E n \in NodesOf(rb) :
          /\ hasattr_when(rb, n)
          /\ rb.when[n] # TrueClause
          /\ invalid_syntax \in rb.when[n]
      errors == (IF non_existent THEN {"non-existent node"} ELSE {})
                  \cup (IF bad_when THEN {"invalid when"} ELSE {})
  IN IF errors # {} THEN errors
     ELSE IF _has_cycles(rb) THEN {"cycles"}
     ELSE {}

\* engine.start_run: [error, runs, run_info]
start_run(rb, rows) ==
  LET ri == [workflow_name |-> Title, run_id |-> 0, end_time |-> None,
             status |-> "running", nodes_ok |-> 0, nodes_nok |-> 0,
             nodes_skipped |-> 0, trigger |-> "run"]
  IN IF validate(rb) # {}
       THEN [error |-> "ValueError", runs |-> rows, run_info |-> NoRunInfo]
       ELSE [error |-> "none", runs |-> create_run(rows, ri),
             run_info |-> [ri EXCEPT !.run_id = NextRunId(rows, Title)]]

\* variant: the status of the run is not verified
resume_run_unchecked(rows, run_id) ==
  IF ~HasRun(rows, Title, run_id)
    THEN [error |-> "ValueError", runs |-> rows, run_info |-> NoRunInfo]
  ELSE LET ri1 == [get_run(rows, Title, run_id) EXCEPT !.status = "running",
                                                        !.trigger = "resume"]
       IN [error |-> "none", runs |-> update_run(rows, ri1), run_info |-> ri1]

\* engine.resume_run: [error, runs, run_info]
resume_run(rows, run_id) ==
  IF ~HasRun(rows, Title, run_id)
    THEN [error |-> "ValueError", runs |-> rows, run_info |-> NoRunInfo]
  ELSE LET ri == get_run(rows, Title, run_id)
       IN IF ri.status \notin {"running", "aborted"}
            THEN [error |-> "ValueError", runs |-> rows, run_info |-> ri]
            ELSE LET ri1 == [ri EXCEPT !.status = "running", !.trigger = "resume"]
                 IN [error |-> "none", runs |-> update_run(rows, ri1),
                     run_info |-> ri1]

\* playbook run: _execute_workflow without a run id
Run(mr) ==
  /\ pc = "idle"
  /\ runs = {}
  /\ LET r == start_run(runbook, runs)
         order == _get_execution_order(runbook)
         sel == _determine_nodes_to_run(executions, r.run_info, order, NoStartNode)
     IN /\ runs' = r.runs
        /\ error' = r.error
        /\ IF r.error # "none" \/ sel.nodes = << >>
             THEN WrapperEnds
             ELSE EnterExecuteNodes(r.run_info, sel.nodes, mr)
  /\ start_node' = NoStartNode
  /\ lastOp' = "run"
  /\ final_status' = "none"
  /\ UNCHANGED <<apart, runbook, executions>>
  /\ dispatch' = "none"

\* playbook resume: _execute_workflow with a run id and an optional start node
Resume(run_id, sn, mr) ==
  /\ pc = "idle"
  /\ LET r == resume_run(runs, run_id)
         order == _get_execution_order(runbook)
         sel == _determine_nodes_to_run(executions, r.run_info, order, sn)
     IN /\ runs' = r.runs
        /\ IF r.error # "none"
             THEN error' = r.error /\ WrapperEnds
           ELSE IF sel.error # "none"
             THEN error' = sel.error /\ WrapperEnds
           ELSE IF sel.nodes = << >>
             THEN error' = "none" /\ WrapperEnds
           ELSE error' = "none" /\ EnterExecuteNodes(r.run_info, sel.nodes, mr)
  /\ start_node' = sn
  /\ lastOp' = "resume"
  /\ final_status' = "none"
  /\ UNCHANGED <<apart, runbook, executions>>
  /\ dispatch' = "none"

\* ConditionEvaluator.evaluate raises ValueError when the rendering raises
evaluate_raises(when) == \E c \in when : c.fn \notin {"has_succeeded", "has_failed"}

\* ConditionEvaluator.evaluate over ConditionContext(execution_map)
evaluate(when, execution_map) ==
  \A c \in when :
    /\ c.node_id \in DOMAIN execution_map
    /\ execution_map[c.node_id].status =
         (IF c.fn = "has_succeeded" THEN "ok" ELSE "nok")

\* the exception of a statement of the store that fails
StoreError == "sqlite3.Error"

\* _should_execute_node gets as far as node_repo.get_executions (line 167)
reads_executions(rb, node_id) ==
  hasattr_when(rb, node_id) /\ rb.when[node_id] # TrueClause

\* engine._should_execute_node; `failed` is the statement of the store that
\* raises during the call, "none" when the store works. Lines 165-189 are one
\* try block whose except branch returns True.
_should_execute_node(rb, node_id, ri, rows, failed) ==
  IF ~hasattr_when(rb, node_id) THEN TRUE
  ELSE IF rb.when[node_id] = TrueClause THEN TRUE
  ELSE IF failed = "get_executions" THEN TRUE
  ELSE IF evaluate_raises(rb.when[node_id]) THEN TRUE
  ELSE evaluate(rb.when[node_id],
         _get_latest_executions_per_node(
           get_executions(rows, Title, ri.run_id)))

\* what a call of the dispatch of a node can do: the node ends OK, it ends NOK
\* (exit code, rejected prompt_after), the port raises an exception, or the
\* operator rejects prompt_before and the executor returns before the work
Dispatches == {"ok", "nok", "raises", "rejected"}

\* str(e) of the exception a port raised: every raise of the process runner,
\* the plugin registry and the plugins carries a message
ExceptionText == "Plugin 'p' not found"

\* variant: the exception is caught and its text dropped
_execute_node_internal_without_text(outcome) ==
  [status |-> IF outcome = "ok" THEN "ok" ELSE "nok", exception |-> None,
   operator_decision |-> IF outcome = "rejected" THEN "rejected" ELSE None]

\* engine._execute_node_internal: the NodeExecution it returns
_execute_node_internal(outcome) ==
  IF outcome = "raises"
    THEN [status |-> "nok", exception |-> ExceptionText, operator_decision |-> None]
  ELSE IF outcome = "rejected"
    THEN [status |-> "nok", exception |-> None, operator_decision |-> "rejected"]
  ELSE [status |-> outcome, exception |-> None, operator_decision |-> None]

\* variant: a critical node with skip = true is not refused
refuses_nothing(rb, node_id) == FALSE

\* "if node.skip: if node.critical: raise ValueError", lines 483-485, 363-365
refuses(rb, node_id) == node_id \in rb.skip /\ node_id \in rb.critical

\* engine.execute_node: [error, executions, execution, dispatched, store_failed]
\* store_failed: the call reached the statement of the store that raises
execute_node(rb, node_id, ri, rows, outcome, failed) ==
  LET first == [workflow_name |-> Title, run_id |-> ri.run_id, node_id |-> node_id,
                attempt |-> 1, end_time |-> None, status |-> "running",
                exception |-> None, operator_decision |-> None]
      skipped == [first EXCEPT !.end_time = Now, !.status = "skipped"]
      result == _execute_node_internal(outcome)
      done == [first EXCEPT !.end_time = Now, !.status = result.status,
                            !.exception = result.exception,
                            !.operator_decision = result.operator_decision]
      read_failed == failed = "get_executions" /\ reads_executions(rb, node_id)
  IN IF refuses(rb, node_id)
       THEN [error |-> "ValueError", executions |-> rows, execution |-> NoExecution,
             dispatched |-> FALSE, store_failed |-> FALSE]
     ELSE IF failed = "create_execution"
       THEN [error |-> StoreError, executions |-> rows, execution |-> NoExecution,
             dispatched |-> FALSE, store_failed |-> TRUE]
     ELSE IF KeyExists(rows, first)
       THEN [error |-> "IntegrityError", executions |-> rows,
             execution |-> NoExecution, dispatched |-> FALSE,
             store_failed |-> FALSE]
     ELSE IF node_id \in rb.skip
       THEN [error |-> "none", executions |-> create_execution(rows, skipped),
             execution |-> skipped, dispatched |-> FALSE, store_failed |-> FALSE]
     ELSE IF ~_should_execute_node(rb, node_id, ri, rows, failed)
       THEN [error |-> "none", executions |-> create_execution(rows, skipped),
             execution |-> skipped, dispatched |-> FALSE, store_failed |-> FALSE]
     ELSE IF failed = "update_execution"
       THEN [error |-> StoreError, executions |-> create_execution(rows, first),
             execution |-> NoExecution, dispatched |-> TRUE, store_failed |-> TRUE]
     ELSE [error |-> "none",
           executions |-> update_execution(create_execution(rows, first), done),
           execution |-> done, dispatched |-> TRUE, store_failed |-> read_failed]

\* engine.resume_node_execution: [error, executions, execution, dispatched]
resume_node_execution(rb, node_id, rows, existing_execution, outcome) ==
  IF node_id \in rb.skip
    THEN IF refuses(rb, node_id)
           THEN [error |-> "ValueError", executions |-> rows,
                 execution |-> NoExecution, dispatched |-> FALSE]
           ELSE LET e == [existing_execution EXCEPT !.status = "skipped",
                                                    !.end_time = Now]
                IN [error |-> "none", executions |-> update_execution(rows, e),
                    execution |-> e, dispatched |-> FALSE]
    ELSE LET running == [existing_execution EXCEPT !.status = "running"]
             result == _execute_node_internal(outcome)
             e == [running EXCEPT !.end_time = Now, !.status = result.status,
                                  !.exception = result.exception,
                                  !.operator_decision = result.operator_decision]
         IN [error |-> "none",
             executions |-> update_execution(update_execution(rows, running), e),
             execution |-> e, dispatched |-> TRUE]

\* engine.execute_node_retry: [error, executions, execution, dispatched]
\* lines 459-465 copy the fields of the result except operator_decision
execute_node_retry(node_id, ri, rows, attempt, outcome) ==
  LET new == [workflow_name |-> Title, run_id |-> ri.run_id, node_id |-> node_id,
              attempt |-> attempt, end_time |-> None, status |-> "running",
              exception |-> None, operator_decision |-> None]
      result == _execute_node_internal(outcome)
      done == [new EXCEPT !.end_time = Now, !.status = result.status,
                          !.exception = result.exception]
  IN IF KeyExists(rows, new)
       THEN [error |-> "IntegrityError", executions |-> rows,
             execution |-> NoExecution, dispatched |-> FALSE]
       ELSE [error |-> "none",
             executions |-> update_execution(create_execution(rows, new), done),
             execution |-> done, dispatched |-> TRUE]

\* where the loop body goes after an attempt with the given status
\* variant: the loop goes on to the next node whatever the status
AfterAttempt_advancing(status) == "aggregate"

AfterAttempt(status) == IF status = "nok" THEN "failure" ELSE "aggregate"

\* loop body of _execute_nodes, lines 296-328: the first attempt of the current
\* node in this invocation; outcome is the status the node's work ends with
ExecuteNode(outcome) ==
  /\ pc = "execute"
  /\ LET current_node_id == nodes_to_run[idx]
         has_existing == current_node_id \in DOMAIN existing_executions_map
         use_existing ==
           has_existing /\ existing_executions_map[current_node_id].status # "ok"
         r == IF use_existing
                THEN resume_node_execution(runbook, current_node_id, executions,
                       existing_executions_map[current_node_id], outcome)
                ELSE execute_node(runbook, current_node_id, run_info, executions,
                                  outcome, "none")
     IN /\ executions' = r.executions
        /\ error' = r.error
        /\ lastOp' = IF use_existing THEN "resume_node_execution" ELSE "execute_node"
        /\ dispatch' = IF r.dispatched THEN outcome ELSE "none"
        /\ IF r.error # "none"
             THEN WrapperEnds /\ start_node' = NoStartNode
             ELSE /\ execution' = r.execution
                  /\ pc' = AfterAttempt(r.execution.status)
                  /\ UNCHANGED <<run_info, nodes_to_run, idx,
                                 existing_executions_map, max_retries,
                                 start_node>>
  /\ final_status' = "none"
  /\ UNCHANGED <<apart, runbook, runs>>

\* "current_attempt" of the failure handling loop, lines 357-362
current_attempt ==
  get_latest_execution_attempt(executions, Title, run_info.run_id,
                               nodes_to_run[idx]).attempt

\* variant: an attempt number is left out
next_attempt_skipping(current) == current + 2

\* "next_attempt = current_attempt + 1", line 412
next_attempt_of(current) == current + 1

\* operator answers "r": lines 411-440
Retry(outcome) ==
  /\ pc = "failure"
  /\ current_attempt < max_retries
  /\ LET r == execute_node_retry(nodes_to_run[idx], run_info, executions,
                                 next_attempt_of(current_attempt), outcome)
     IN /\ executions' = r.executions
        /\ error' = r.error
        /\ dispatch' = IF r.dispatched THEN outcome ELSE "none"
        /\ IF r.error # "none"
             THEN WrapperEnds /\ start_node' = NoStartNode
             ELSE /\ execution' = r.execution
                  /\ pc' = AfterAttempt(r.execution.status)
                  /\ UNCHANGED <<run_info, nodes_to_run, idx,
                                 existing_executions_map, max_retries,
                                 start_node>>
  /\ lastOp' = "execute_node_retry"
  /\ final_status' = "none"
  /\ UNCHANGED <<apart, runbook, runs>>

\* operator answers "s" for a node that is not critical: lines 383-392, 448-457
Skip ==
  /\ pc = "failure"
  /\ nodes_to_run[idx] \notin runbook.critical
  /\ execution' = [execution EXCEPT !.status = "skipped"]
  /\ executions' = update_execution(executions, execution')
  /\ pc' = "aggregate"
  /\ lastOp' = "skip"
  /\ error' = "none"
  /\ UNCHANGED <<apart, runbook, runs, run_info, nodes_to_run, idx,
                 existing_executions_map, max_retries, start_node>>
  /\ final_status' = "none"
  /\ dispatch' = "none"

\* operator answers "a" (lines 393-398, 459-464), or a critical node is out of
\* retries (lines 365-373): the run is set to ABORTED and the node loop is left
Abort ==
  /\ pc = "failure"
  /\ run_info' = [run_info EXCEPT !.status = "aborted"]
  /\ runs' = update_run(runs, run_info')
  /\ pc' = "final"
  /\ lastOp' = "abort"
  /\ error' = "none"
  /\ UNCHANGED <<apart, runbook, executions, nodes_to_run, idx, execution,
                 existing_executions_map, max_retries, start_node>>
  /\ final_status' = "none"
  /\ dispatch' = "none"

\* engine.update_run_status at the end of the loop body, line 470
Aggregate ==
  /\ pc = "aggregate"
  /\ LET r == update_run_status(runbook, run_info, executions)
     IN /\ run_info' = r.run_info
        /\ runs' = update_run(runs, r.run_info)
        /\ final_status' = r.ret
  /\ idx' = idx + 1
  /\ pc' = IF idx + 1 > Len(nodes_to_run) THEN "final" ELSE "execute"
  /\ lastOp' = "update_run_status"
  /\ error' = "none"
  /\ UNCHANGED <<apart, runbook, executions, nodes_to_run, execution,
                 existing_executions_map, max_retries, start_node>>
  /\ dispatch' = "none"

\* engine.update_run_status after the loop, line 473, and the return
Final ==
  /\ pc = "final"
  /\ LET r == update_run_status(runbook, run_info, executions)
     IN /\ runs' = update_run(runs, r.run_info)
        /\ final_status' = r.ret
  /\ WrapperEnds
  /\ start_node' = NoStartNode
  /\ lastOp' = "final_update_run_status"
  /\ error' = "none"
  /\ UNCHANGED <<apart, runbook, executions>>
  /\ dispatch' = "none"

\* playbook set-status, confirmed, by another process
SetStatus(run_id, new_status) ==
  /\ HasRun(runs, Title, run_id)
  /\ LET ri == get_run(runs, Title, run_id)
     IN /\ ri.status # new_status
        /\ runs' = update_run(runs, [ri EXCEPT !.status = new_status])
  /\ lastOp' = "set_status"
  /\ UNCHANGED <<apart, runbook, executions, pc, run_info, nodes_to_run, idx, execution,
                 existing_executions_map, max_retries, start_node>>
  /\ error' = "none"
  /\ final_status' = "none"
  /\ dispatch' = "none"

\* the model follows the first run of the workflow: every statement of the
\* stores is keyed by run_id, rows of different runs never interact
RunIdArgs == {1}
MaxRetriesArgs == {MaxRetriesOption}
Outcomes == {"ok", "nok"}

\* the steps of the workflow wrapper, the only writer of a run
NextWrapper ==
  \/ \E mr \in MaxRetriesArgs : Run(mr)
  \/ \E rid \in RunIdArgs, sn \in StartNodeArgs, mr \in MaxRetriesArgs :
       Resume(rid, sn, mr)
  \/ \E o \in Outcomes : ExecuteNode(o)
  \/ \E o \in Outcomes : Retry(o)
  \/ Skip
  \/ Abort
  \/ Aggregate
  \/ Final

Next ==
  \/ NextWrapper
  \/ \E rid \in RunIdArgs, st \in RunStatus : SetStatus(rid, st)

\* the wrapper together with set-status commands issued at any moment
Spec == Init /\ [][Next]_vars

\* the wrapper with exclusive access to the stores: no set-status command
SpecExclusive == Init /\ [][NextWrapper]_vars

\* the values of --max-retries from 1 up, a different one in each invocation
MaxRetriesChoices == 1..MaxRetriesOption

\* the wrapper with exclusive access, the invocations differing in max_retries
NextRetries ==
  \/ \E mr \in MaxRetriesChoices : Run(mr)
  \/ \E rid \in RunIdArgs, sn \in StartNodeArgs, mr \in MaxRetriesChoices :
       Resume(rid, sn, mr)
  \/ \E o \in Outcomes : ExecuteNode(o)
  \/ \E o \in Outcomes : Retry(o)
  \/ Skip
  \/ Abort
  \/ Aggregate
  \/ Final

SpecRetries == Init /\ [][NextRetries]_vars

\* Runbook objects built without the parser: b is critical and has skip = true
CriticalSkipRunbooks ==
  { [ids |-> NodeIds,
     depends_on |-> [n \in Nodes |-> IF NodeRank(n) = 1 THEN << >>
                                     ELSE <<NodeIds[NodeRank(n) - 1]>>],
     critical |-> {"a", "b"},
     skip |-> s] : s \in {{"b"}, {"b", "c"}} }

InitCritical ==
  /\ runbook \in Runbooks \cup CriticalSkipRunbooks
  /\ document = NoDocument
  /\ InitState

\* the wrapper with exclusive access on those runbooks
SpecCritical == InitCritical /\ [][NextWrapper]_vars

\* the wrapper with exclusive access to the stores, the ports raising and the
\* operator rejecting prompts as well; resumes are those without a start node
NextDispatch ==
  \/ \E mr \in MaxRetriesArgs : Run(mr)
  \/ \E rid \in RunIdArgs, mr \in MaxRetriesArgs : Resume(rid, NoStartNode, mr)
  \/ \E o \in Dispatches : ExecuteNode(o)
  \/ \E o \in Dispatches : Retry(o)
  \/ Skip
  \/ Abort
  \/ Aggregate
  \/ Final

SpecDispatch == Init /\ [][NextDispatch]_vars

(***************************************************************************)
(* start_run calls of several processes on one database. create_run runs   *)
(* its SELECT and its INSERT as two statements on a connection in          *)
(* sqlite3's default mode, where the transaction begins with the INSERT.   *)
(***************************************************************************)
wrapper_vars == <<runbook, executions, pc, run_info, nodes_to_run, idx, execution,
                  existing_executions_map, max_retries, start_node, lastOp, error,
                  final_status, dispatch>>

\* engine.start_run up to the SELECT of create_run: the next run_id is read
StartRunSelect(p, wf) ==
  /\ start_calls[p].pc # "selected"
  /\ Cardinality(runs) < MaxRuns
  /\ start_calls' = [start_calls EXCEPT ![p] =
       [pc |-> "selected", workflow_name |-> wf, run_id |-> NextRunId(runs, wf)]]
  /\ UNCHANGED <<runs, wrapper_vars, execution_order, document, clock,
                 dependencies, parsed_dependencies, failing, ports>>

\* the INSERT of create_run with the run_id read before, and the return
StartRunInsert(p) ==
  /\ start_calls[p].pc = "selected"
  /\ LET ri == [workflow_name |-> start_calls[p].workflow_name,
                run_id |-> start_calls[p].run_id, end_time |-> None,
                status |-> "running", nodes_ok |-> 0, nodes_nok |-> 0,
                nodes_skipped |-> 0, trigger |-> "run"]
         r == insert_run(runs, ri)
     IN /\ runs' = r.runs
        /\ start_calls' = [start_calls EXCEPT ![p].pc =
             IF r.error = "none" THEN "returned" ELSE r.error]
  /\ UNCHANGED <<wrapper_vars, execution_order, document, clock,
                 dependencies, parsed_dependencies, failing, ports>>

NextStartRun ==
  \/ \E p \in Callers, wf \in Workflows : StartRunSelect(p, wf)
  \/ \E p \in Callers : StartRunInsert(p)

SpecStartRun == Init /\ [][NextStartRun]_vars

(***************************************************************************)
(* `playbook run FILE`: the file is parsed, and the workflow wrapper works *)
(* on the runbook the parser returned.                                     *)
(***************************************************************************)
InitParse ==
  /\ runbook = NoRunbook
  /\ document \in Documents
  /\ InitState

\* _execute_workflow, run.py 159: parser.parse(file); a ValueError ends the command
ParseDocument ==
  /\ lastOp = "init"
  /\ runbook = NoRunbook
  /\ LET r == parse(document)
     IN /\ runbook' = r.runbook
        /\ error' = r.error
  /\ lastOp' = "parse"
  /\ UNCHANGED <<runs, executions, pc, run_info, nodes_to_run, idx, execution,
                 existing_executions_map, max_retries, start_node, final_status,
                 apart, dispatch>>

Parsed == runbook.ids # << >>

NextParse ==
  \/ ParseDocument
  \/ Parsed /\ NextWrapper

SpecParse == InitParse /\ [][NextParse]_vars


(***************************************************************************)
(* engine.start_run on the Runbook values a caller of the engine can       *)
(* construct: the models check neither the dependencies nor the flags.     *)
(***************************************************************************)
MissingNode == "zz"

DependsOnLists ==
  { << >> } \cup { <<m>> : m \in Nodes \cup {MissingNode} }

EngineRunbooks ==
  { [ids |-> NodeIds, depends_on |-> d, critical |-> f[1], skip |-> f[2]] :
    d \in [Nodes -> DependsOnLists], f \in DocumentFlags }

InitStartRun ==
  /\ runbook = NoRunbook
  /\ document = NoDocument
  /\ InitState

\* a call engine.start_run(rb)
StartRun(rb) ==
  /\ Cardinality(runs) < MaxRuns
  /\ runbook' = rb
  /\ LET r == start_run(rb, runs)
     IN /\ runs' = r.runs
        /\ error' = r.error
  /\ lastOp' = "start_run"
  /\ UNCHANGED <<executions, pc, run_info, nodes_to_run, idx, execution,
                 existing_executions_map, max_retries, start_node, final_status,
                 apart, dispatch>>

NextValidate == \E rb \in EngineRunbooks : StartRun(rb)

SpecValidate == InitStartRun /\ [][NextValidate]_vars


(***************************************************************************)
(* engine.update_run_status called again and again on one run whose        *)
(* attempt records do not change, the clock going on between the calls.    *)
(***************************************************************************)
\* the statuses of the attempts 1, 2, ... a node can have
AttemptHistories ==
  { << >> } \cup { <<st>> : st \in {"ok", "nok", "skipped", "running"} }
            \cup { <<"nok", st>> : st \in {"ok", "nok", "skipped"} }

ExecutionsOf(h) ==
  UNION { { [workflow_name |-> Title, run_id |-> 1, node_id |-> n, attempt |-> k,
             end_time |-> IF h[n][k] = "running" THEN None ELSE Now,
             status |-> h[n][k], exception |-> None,
             operator_decision |-> None] : k \in 1..Len(h[n]) } : n \in Nodes }

\* the RunInfo the caller holds: of a run that is going on, or that the
\* failure handling has just set to ABORTED
HeldRunInfo(st) ==
  [workflow_name |-> Title, run_id |-> 1, end_time |-> None, status |-> st,
   nodes_ok |-> 0, nodes_nok |-> 0, nodes_skipped |-> 0, trigger |-> "run"]

InitAggregate ==
  /\ runbook \in Runbooks
  /\ document = NoDocument
  /\ \E h \in [Nodes -> AttemptHistories] : executions = ExecutionsOf(h)
  /\ \E st \in {"running", "aborted"} :
       /\ run_info = HeldRunInfo(st)
       /\ runs = {HeldRunInfo(st)}
  /\ pc = "idle"
  /\ nodes_to_run = << >>
  /\ idx = 0
  /\ execution = NoExecution
  /\ existing_executions_map = << >>
  /\ max_retries = 0
  /\ start_node = NoStartNode
  /\ lastOp = "init"
  /\ error = "none"
  /\ final_status = "none"
  /\ start_calls = [p \in Callers |-> NoCall]
  /\ execution_order = << >>
  /\ clock = 0
  /\ dependencies = << >>
  /\ parsed_dependencies = NoParsedDependencies
  /\ dispatch = "none"
  /\ failing = "none"
  /\ InitPorts

\* a call engine.update_run_status(runbook, run_info)
UpdateRunStatus ==
  /\ clock < Len(Times)
  /\ clock' = clock + 1
  /\ LET r == update_run_status_at(runbook, run_info, executions, Times[clock + 1])
     IN /\ run_info' = r.run_info
        /\ runs' = update_run(runs, r.run_info)
        /\ final_status' = r.ret
  /\ lastOp' = "update_run_status"
  /\ UNCHANGED <<runbook, executions, pc, nodes_to_run, idx, execution,
                 existing_executions_map, max_retries, start_node, error,
                 start_calls, execution_order, document, dependencies,
                 parsed_dependencies, dispatch, failing, ports>>

NextAggregate == UpdateRunStatus

SpecAggregate == InitAggregate /\ [][NextAggregate]_vars


(***************************************************************************)
(* parse_dependencies on depends_on lists.                                 *)
(***************************************************************************)
MaxDependencies == 3

\* the conditions a dependency string can carry behind its first ":"
WrittenConditions == ParsedConditions \cup {"done", ""}

DependencyStrings == [node_id : {"a", "b"}, condition : WrittenConditions]

DependencyLists ==
  UNION { [1..k -> DependencyStrings] : k \in 0..MaxDependencies }

InitDependencies ==
  /\ runbook = NoRunbook
  /\ document = NoDocument
  /\ runs = {}
  /\ executions = {}
  /\ pc = "idle"
  /\ run_info = NoRunInfo
  /\ nodes_to_run = << >>
  /\ idx = 0
  /\ execution = NoExecution
  /\ existing_executions_map = << >>
  /\ max_retries = 0
  /\ start_node = NoStartNode
  /\ lastOp = "init"
  /\ error = "none"
  /\ final_status = "none"
  /\ start_calls = [p \in Callers |-> NoCall]
  /\ execution_order = << >>
  /\ clock = 0
  /\ dependencies \in DependencyLists
  /\ parsed_dependencies = NoParsedDependencies
  /\ dispatch = "none"
  /\ failing = "none"
  /\ InitPorts

\* a call parse_dependencies(dependencies)
ParseDependencies ==
  /\ lastOp = "init"
  /\ parsed_dependencies' = parse_dependencies(dependencies)
  /\ error' = parsed_dependencies'.error
  /\ lastOp' = "parse_dependencies"
  /\ UNCHANGED <<runbook, runs, executions, pc, run_info, nodes_to_run, idx,
                 execution, existing_executions_map, max_retries, start_node,
                 final_status, start_calls, execution_order, document, clock,
                 dependencies, dispatch, failing, ports>>

NextDependencies == ParseDependencies

SpecDependencies == InitDependencies /\ [][NextDependencies]_vars


(***************************************************************************)
(* The operations of the engine on a run whose store can fail, for node    *)
(* objects with and without a `when` attribute: the two cases line 162 of  *)
(* _should_execute_node tells apart with hasattr(node, "when").            *)
(***************************************************************************)
LinearDependsOn ==
  [n \in Nodes |-> IF NodeRank(n) = 1 THEN << >> ELSE <<NodeIds[NodeRank(n) - 1]>>]

WhenClauses == {TrueClause, {has_failed("b")}, {has_succeeded("b")}, {undefined_name}}

GatedRunbooks ==
  { [ids |-> NodeIds, depends_on |-> LinearDependsOn, critical |-> {}, skip |-> {},
     when |-> [n \in Nodes |-> IF n = "c" THEN w ELSE TrueClause]] :
    w \in WhenClauses }

StoreStatements == {"get_executions", "create_execution", "update_execution"}

InitEngine ==
  /\ runbook \in GatedRunbooks \cup Runbooks
  /\ document = NoDocument
  /\ executions = {}
  /\ run_info = HeldRunInfo("running")
  /\ runs = {HeldRunInfo("running")}
  /\ pc = "idle"
  /\ nodes_to_run = << >>
  /\ idx = 0
  /\ execution = NoExecution
  /\ existing_executions_map = << >>
  /\ max_retries = 0
  /\ start_node = NoStartNode
  /\ lastOp = "init"
  /\ error = "none"
  /\ final_status = "none"
  /\ start_calls = [p \in Callers |-> NoCall]
  /\ execution_order = << >>
  /\ clock = 0
  /\ dependencies = << >>
  /\ parsed_dependencies = NoParsedDependencies
  /\ dispatch = "none"
  /\ failing = "none"
  /\ InitPorts

\* a call engine.execute_node(runbook, n, run_info) during which the statement
\* f of the store raises, if the call gets to it
EngineExecuteNode(n, outcome, f) ==
  /\ ~\E e \in executions : e.node_id = n
  /\ LET r == execute_node(runbook, n, run_info, executions, outcome, f)
     IN /\ executions' = r.executions
        /\ execution' = r.execution
        /\ error' = r.error
        /\ dispatch' = IF r.dispatched THEN outcome ELSE "none"
        /\ failing' = IF r.store_failed THEN f ELSE "none"
  /\ lastOp' = "execute_node"
  /\ final_status' = "none"
  /\ UNCHANGED <<runbook, runs, pc, run_info, nodes_to_run, idx,
                 existing_executions_map, max_retries, start_node, start_calls,
                 execution_order, document, clock, dependencies,
                 parsed_dependencies, ports>>

\* a call engine.update_run_status(runbook, run_info) during which the read of
\* the executions (line 845) or the update_run (line 867) raises
EngineUpdateRunStatus(f) ==
  /\ LET r == update_run_status(runbook, run_info, executions)
     IN IF f = "none"
          THEN /\ run_info' = r.run_info
               /\ runs' = update_run(runs, r.run_info)
               /\ final_status' = r.ret
               /\ error' = "none"
          ELSE /\ run_info' = IF f = "get_executions" THEN run_info
                              ELSE [run_info EXCEPT
                                      !.nodes_ok = r.run_info.nodes_ok,
                                      !.nodes_nok = r.run_info.nodes_nok,
                                      !.nodes_skipped = r.run_info.nodes_skipped]
               /\ runs' = runs
               /\ final_status' = "none"
               /\ error' = StoreError
  /\ failing' = f
  /\ lastOp' = "update_run_status"
  /\ dispatch' = "none"
  /\ UNCHANGED <<runbook, executions, pc, nodes_to_run, idx, execution,
                 existing_executions_map, max_retries, start_node, start_calls,
                 execution_order, document, clock, dependencies,
                 parsed_dependencies, ports>>

NextEngine ==
  \/ \E n \in Nodes, o \in Dispatches, f \in StoreStatements \cup {"none"} :
       EngineExecuteNode(n, o, f)
  \/ \E f \in {"none", "get_executions", "update_run"} : EngineUpdateRunStatus(f)

SpecEngine == InitEngine /\ [][NextEngine]_vars

(***************************************************************************)
(* _execute_command_node on every Command node and every behaviour of the  *)
(* io handler and the process runner.                                      *)
(***************************************************************************)
Prompts(text) == {"", text}
ExitCodes == {0, 1, 2}

CommandNodes ==
  [prompt_before : Prompts("go?"), prompt_after : Prompts("done?")]

\* before, after: the operator's answers to the two prompts; exit_code: what
\* run_command returns; raises: run_command raises instead of returning
IOs == [before : BOOLEAN, after : BOOLEAN, exit_code : ExitCodes, raises : BOOLEAN]

\* variant: the confirmation is asked whatever the exit code
_execute_command_node_always_asking(node, answers) ==
  LET asked_before == IF node.prompt_before # "" THEN <<"prompt_before">> ELSE << >>
      ran == Append(asked_before, "run_command")
  IN IF node.prompt_before # "" /\ ~answers.before
       THEN [status |-> "nok", operator_decision |-> "rejected", exit_code |-> None,
             exception |-> None, calls |-> asked_before]
     ELSE IF answers.raises
       THEN [status |-> "nok", operator_decision |-> None, exit_code |-> None,
             exception |-> ExceptionText, calls |-> ran]
     ELSE IF node.prompt_after = ""
       THEN [status |-> IF answers.exit_code = 0 THEN "ok" ELSE "nok",
             operator_decision |-> None, exit_code |-> answers.exit_code,
             exception |-> None, calls |-> ran]
     ELSE [status |-> IF answers.after THEN "ok" ELSE "nok",
           operator_decision |-> IF answers.after THEN "approved" ELSE "rejected",
           exit_code |-> answers.exit_code, exception |-> None,
           calls |-> Append(ran, "prompt_after")]

\* engine._execute_command_node: the NodeExecution it returns, and the calls
\* it made to the io handler and the process runner
_execute_command_node(node, answers) ==
  LET asked_before == IF node.prompt_before # "" THEN <<"prompt_before">> ELSE << >>
      ran == Append(asked_before, "run_command")
  IN IF node.prompt_before # "" /\ ~answers.before
       THEN [status |-> "nok", operator_decision |-> "rejected", exit_code |-> None,
             exception |-> None, calls |-> asked_before]
     ELSE IF answers.raises
       THEN [status |-> "nok", operator_decision |-> None, exit_code |-> None,
             exception |-> ExceptionText, calls |-> ran]
     ELSE IF answers.exit_code = 0
       THEN IF node.prompt_after # ""
              THEN IF ~answers.after
                     THEN [status |-> "nok", operator_decision |-> "rejected",
                           exit_code |-> 0, exception |-> None,
                           calls |-> Append(ran, "prompt_after")]
                     ELSE [status |-> "ok", operator_decision |-> "approved",
                           exit_code |-> 0, exception |-> None,
                           calls |-> Append(ran, "prompt_after")]
              ELSE [status |-> "ok", operator_decision |-> None, exit_code |-> 0,
                    exception |-> None, calls |-> ran]
     ELSE [status |-> "nok", operator_decision |-> None,
           exit_code |-> answers.exit_code, exception |-> None, calls |-> ran]

InitCommand ==
  /\ runbook \in Runbooks
  /\ document = NoDocument
  /\ runs = {}
  /\ executions = {}
  /\ pc = "idle"
  /\ run_info = NoRunInfo
  /\ nodes_to_run = << >>
  /\ idx = 0
  /\ execution = NoExecution
  /\ existing_executions_map = << >>
  /\ max_retries = 0
  /\ start_node = NoStartNode
  /\ lastOp = "init"
  /\ error = "none"
  /\ final_status = "none"
  /\ start_calls = [p \in Callers |-> NoCall]
  /\ execution_order = << >>
  /\ clock = 0
  /\ dependencies = << >>
  /\ parsed_dependencies = NoParsedDependencies
  /\ dispatch = "none"
  /\ failing = "none"
  /\ command_node \in CommandNodes
  /\ io \in IOs
  /\ command_execution = NoCommandExecution
  /\ InitRegistry

\* a call engine._execute_command_node(node)
ExecuteCommandNode ==
  /\ lastOp = "init"
  /\ command_execution' = _execute_command_node(command_node, io)
  /\ lastOp' = "_execute_command_node"
  /\ UNCHANGED <<runbook, runs, executions, pc, run_info, nodes_to_run, idx,
                 execution, existing_executions_map, max_retries, start_node,
                 error, final_status, start_calls, execution_order, document,
                 clock, dependencies, parsed_dependencies, dispatch, failing,
                 command_node, io, plugins, initializations, plugin_call,
                 retried, cycle_check>>

NextCommand == ExecuteCommandNode

SpecCommand == InitCommand /\ [][NextCommand]_vars

(***************************************************************************)
(* Plugin registry (PluginRegistry) and the Function nodes that use it.    *)
(***************************************************************************)
\* the instances of one plugin class the registry initializes in a behaviour
MaxInitializations == 2

\* {} is what "config or {}" and an absent plugin_config come to
PluginConfigs == {"{}", "c1", "c2"}

\* Function nodes of one runbook: f1 and f2 name the same plugin
FunctionNodes ==
  { [id |-> "f1", plugin |-> "p", plugin_config |-> "c1"],
    [id |-> "f2", plugin |-> "p", plugin_config |-> "c2"],
    [id |-> "f3", plugin |-> "p", plugin_config |-> "{}"],
    [id |-> "f4", plugin |-> "q", plugin_config |-> "{}"],
    [id |-> "f5", plugin |-> "q", plugin_config |-> "c1"],
    [id |-> "f6", plugin |-> "zz", plugin_config |-> "{}"] }

Cached(cache, name) == name \in DOMAIN cache

Put(cache, name, instance) ==
  [n \in DOMAIN cache \cup {name} |-> IF n = name THEN instance ELSE cache[n]]

Drop(cache, names) == [n \in DOMAIN cache \ names |-> cache[n]]

\* variant: the instance is cached before initialize is called
get_plugin_caching_first(cache, inits, name, config, initialize_ok) ==
  IF Cached(cache, name)
    THEN [error |-> "none", plugins |-> cache, initializations |-> inits,
          instance |-> cache[name]]
  ELSE IF name \notin PluginClasses
    THEN [error |-> "PluginNotFoundError", plugins |-> cache,
          initializations |-> inits, instance |-> NoInstance]
  ELSE LET plugin_instance ==
             [name |-> name, id |-> inits[name] + 1, config |-> config]
           counted == [inits EXCEPT ![name] = @ + 1]
       IN IF ~initialize_ok
            THEN [error |-> "PluginInitializationError",
                  plugins |-> Put(cache, name, plugin_instance),
                  initializations |-> counted, instance |-> NoInstance]
            ELSE [error |-> "none", plugins |-> Put(cache, name, plugin_instance),
                  initializations |-> counted, instance |-> plugin_instance]

\* PluginRegistry.get_plugin: [error, plugins, initializations, instance];
\* initialize_ok: plugin_instance.initialize(config) returns
get_plugin(cache, inits, name, config, initialize_ok) ==
  IF Cached(cache, name)
    THEN [error |-> "none", plugins |-> cache, initializations |-> inits,
          instance |-> cache[name]]
  ELSE IF name \notin PluginClasses
    THEN [error |-> "PluginNotFoundError", plugins |-> cache,
          initializations |-> inits, instance |-> NoInstance]
  ELSE LET plugin_instance ==
             [name |-> name, id |-> inits[name] + 1, config |-> config]
           counted == [inits EXCEPT ![name] = @ + 1]
       IN IF ~initialize_ok
            THEN [error |-> "PluginInitializationError", plugins |-> cache,
                  initializations |-> inits, instance |-> NoInstance]
            ELSE [error |-> "none", plugins |-> Put(cache, name, plugin_instance),
                  initializations |-> counted, instance |-> plugin_instance]

\* PluginRegistry.reload_plugin
reload_plugin(cache, inits, name, config, initialize_ok) ==
  get_plugin(Drop(cache, {name}), inits, name, config, initialize_ok)

\* PluginRegistry.cleanup_all
cleanup_all(cache) == Drop(cache, DOMAIN cache)

\* engine._execute_plugin_function up to plugin.execute
_execute_plugin_function(cache, inits, node, initialize_ok) ==
  get_plugin(cache, inits, node.plugin, node.plugin_config, initialize_ok)

\* the call creates an instance and calls its initialize
Initializes(cache, name) == ~Cached(cache, name) /\ name \in PluginClasses

RegistryUnchanged ==
  UNCHANGED <<runbook, runs, executions, pc, run_info, nodes_to_run, idx,
              execution, existing_executions_map, max_retries, start_node,
              final_status, start_calls, execution_order, document, clock,
              dependencies, parsed_dependencies, dispatch, failing,
              command_node, io, command_execution, retried, cycle_check>>

GetPlugin(name, config, initialize_ok) ==
  /\ Initializes(plugins, name) => initializations[name] < MaxInitializations
  /\ LET r == get_plugin(plugins, initializations, name, config, initialize_ok)
     IN /\ plugins' = r.plugins
        /\ initializations' = r.initializations
        /\ error' = r.error
        /\ plugin_call' = [node_id |-> "", name |-> name, config |-> config,
                           instance |-> r.instance]
  /\ lastOp' = "get_plugin"
  /\ RegistryUnchanged

ReloadPlugin(name, config, initialize_ok) ==
  /\ name \in PluginClasses => initializations[name] < MaxInitializations
  /\ LET r == reload_plugin(plugins, initializations, name, config, initialize_ok)
     IN /\ plugins' = r.plugins
        /\ initializations' = r.initializations
        /\ error' = r.error
        /\ plugin_call' = [node_id |-> "", name |-> name, config |-> config,
                           instance |-> r.instance]
  /\ lastOp' = "reload_plugin"
  /\ RegistryUnchanged

CleanupAll ==
  /\ plugins' = cleanup_all(plugins)
  /\ plugin_call' = NoPluginCall
  /\ error' = "none"
  /\ lastOp' = "cleanup_all"
  /\ UNCHANGED initializations
  /\ RegistryUnchanged

\* the dispatch of a Function node of the run: _execute_plugin_function
ExecutePluginFunction(node, initialize_ok) ==
  /\ Initializes(plugins, node.plugin)
       => initializations[node.plugin] < MaxInitializations
  /\ LET r == _execute_plugin_function(plugins, initializations, node,
                                       initialize_ok)
     IN /\ plugins' = r.plugins
        /\ initializations' = r.initializations
        /\ error' = r.error
        /\ plugin_call' = [node_id |-> node.id, name |-> node.plugin,
                           config |-> node.plugin_config, instance |-> r.instance]
  /\ lastOp' = "_execute_plugin_function"
  /\ RegistryUnchanged

InitPlugins ==
  /\ runbook \in Runbooks
  /\ document = NoDocument
  /\ InitState

\* the Function nodes of a run, in one process: nothing but get_plugin
NextFunctions ==
  \E node \in FunctionNodes, ok \in BOOLEAN : ExecutePluginFunction(node, ok)

SpecFunctions == InitPlugins /\ [][NextFunctions]_vars

\* every operation of the registry
NextRegistry ==
  \/ \E name \in PluginNames, config \in PluginConfigs, ok \in BOOLEAN :
       GetPlugin(name, config, ok)
  \/ \E name \in PluginNames, config \in PluginConfigs, ok \in BOOLEAN :
       ReloadPlugin(name, config, ok)
  \/ CleanupAll
  \/ \E node \in FunctionNodes, ok \in BOOLEAN : ExecutePluginFunction(node, ok)

SpecRegistry == InitPlugins /\ [][NextRegistry]_vars

(***************************************************************************)
(* retry_node_execution on a node of a run with earlier attempts.          *)
(***************************************************************************)
RetriedNode == "a"
MaxAttemptsArgs == 1..(MaxRetriesOption + 1)

\* the statuses of the attempts 1, 2, ... node a has when the call is made
EarlierAttempts ==
  UNION { [1..k -> {"ok", "nok", "skipped"}] : k \in 0..MaxRetriesOption }

\* what the dispatch does in the attempts the call runs, by attempt number
OutcomeLists == [MaxAttemptsArgs -> Dispatches]

\* engine.execute_node_with_existing_record: [executions, execution]
execute_node_with_existing_record(node_id, ri, rows, attempt, outcome) ==
  LET internal == _execute_node_internal(outcome)
      result == [workflow_name |-> Title, run_id |-> ri.run_id,
                 node_id |-> node_id, attempt |-> attempt, end_time |-> Now,
                 status |-> internal.status, exception |-> internal.exception,
                 operator_decision |-> internal.operator_decision]
  IN [executions |-> update_execution(rows, result), execution |-> result]

\* the for loop of retry_node_execution from attempt_number on:
\* [error, executions, status, execution, total_attempts, attempts]
RECURSIVE retry_loop(_, _, _, _, _, _, _)
retry_loop(node_id, ri, rows, attempt_number, max_attempts, outcomes, ran) ==
  IF attempt_number > max_attempts
    THEN LET final_execution ==
               get_latest_execution_attempt(rows, Title, ri.run_id, node_id)
         IN IF final_execution = NoExecution
              THEN [error |-> "AttributeError", executions |-> rows,
                    status |-> "none", execution |-> NoExecution,
                    total_attempts |-> 0, attempts |-> ran]
              ELSE [error |-> "none", executions |-> rows,
                    status |-> final_execution.status,
                    execution |-> final_execution,
                    total_attempts |-> max_attempts, attempts |-> ran]
  ELSE LET r == execute_node_with_existing_record(node_id, ri, rows,
                  attempt_number, outcomes[attempt_number])
       IN IF r.execution.status = "ok"
            THEN [error |-> "none", executions |-> r.executions,
                  status |-> "ok", execution |-> r.execution,
                  total_attempts |-> attempt_number,
                  attempts |-> ran \cup {attempt_number}]
            ELSE retry_loop(node_id, ri, r.executions, attempt_number + 1,
                            max_attempts, outcomes, ran \cup {attempt_number})

\* engine.retry_node_execution
retry_node_execution(node_id, ri, rows, max_attempts, outcomes) ==
  LET latest_execution ==
        get_latest_execution_attempt(rows, Title, ri.run_id, node_id)
      latest_attempt ==
        IF latest_execution = NoExecution THEN 0 ELSE latest_execution.attempt
  IN retry_loop(node_id, ri, rows, latest_attempt + 1, max_attempts, outcomes, {})

InitRetry ==
  /\ runbook \in Runbooks
  /\ document = NoDocument
  /\ \E h \in EarlierAttempts :
       executions = { [workflow_name |-> Title, run_id |-> 1,
                       node_id |-> RetriedNode, attempt |-> k, end_time |-> Now,
                       status |-> h[k], exception |-> None,
                       operator_decision |-> None] : k \in DOMAIN h }
  /\ run_info = HeldRunInfo("running")
  /\ runs = {HeldRunInfo("running")}
  /\ pc = "idle"
  /\ nodes_to_run = << >>
  /\ idx = 0
  /\ execution = NoExecution
  /\ existing_executions_map = << >>
  /\ max_retries = 0
  /\ start_node = NoStartNode
  /\ lastOp = "init"
  /\ error = "none"
  /\ final_status = "none"
  /\ start_calls = [p \in Callers |-> NoCall]
  /\ execution_order = << >>
  /\ clock = 0
  /\ dependencies = << >>
  /\ parsed_dependencies = NoParsedDependencies
  /\ dispatch = "none"
  /\ failing = "none"
  /\ InitPorts

\* a call engine.retry_node_execution(runbook, "a", run_info, max_attempts)
RetryNodeExecution(max_attempts, outcomes) ==
  /\ LET r == retry_node_execution(RetriedNode, run_info, executions,
                                   max_attempts, outcomes)
     IN /\ executions' = r.executions
        /\ error' = r.error
        /\ retried' = [status |-> r.status, execution |-> r.execution,
                       total_attempts |-> r.total_attempts,
                       attempts |-> r.attempts]
  /\ lastOp' = "retry_node_execution"
  /\ UNCHANGED <<runbook, runs, pc, run_info, nodes_to_run, idx, execution,
                 existing_executions_map, max_retries, start_node,
                 final_status, start_calls, execution_order, document, clock,
                 dependencies, parsed_dependencies, dispatch, failing,
                 command_node, io, command_execution, plugins, initializations,
                 plugin_call, cycle_check>>

NextRetry ==
  \E max_attempts \in MaxAttemptsArgs, outcomes \in OutcomeLists :
    RetryNodeExecution(max_attempts, outcomes)

SpecRetry == InitRetry /\ [][NextRetry]_vars

(***************************************************************************)
(* _has_cycles and _get_execution_order on the same runbook: every graph   *)
(* over a, b, c whose depends_on references resolve, cycles included.      *)
(***************************************************************************)
MaxDependsOn == 2

\* the depends_on lists of up to MaxDependsOn node ids, repetitions included
ResolvedDependsOn == UNION { [1..k -> Nodes] : k \in 0..MaxDependsOn }

GraphRunbooks ==
  { [ids |-> NodeIds, depends_on |-> d, critical |-> {}, skip |-> {}] :
    d \in [Nodes -> ResolvedDependsOn] }

InitCycles ==
  /\ runbook \in GraphRunbooks
  /\ document = NoDocument
  /\ InitState

CyclesUnchanged ==
  UNCHANGED <<runbook, runs, executions, pc, run_info, nodes_to_run, idx,
              execution, existing_executions_map, max_retries, start_node,
              final_status, start_calls, document, clock, dependencies,
              parsed_dependencies, dispatch, failing, command_node, io,
              command_execution, plugins, initializations, plugin_call, retried>>

\* a call engine._has_cycles(runbook)
HasCycles ==
  /\ cycle_check.has_cycles = "none"
  /\ cycle_check' = [cycle_check EXCEPT
                       !.has_cycles = IF _has_cycles(runbook) THEN "True" ELSE "False"]
  /\ lastOp' = "_has_cycles"
  /\ error' = "none"
  /\ UNCHANGED execution_order
  /\ CyclesUnchanged

\* a call engine._get_execution_order(runbook): the list, or the ValueError
OrderOrCycleError ==
  /\ cycle_check.order = "none"
  /\ IF cycle_detected(runbook)
       THEN /\ error' = "ValueError"
            /\ cycle_check' = [cycle_check EXCEPT !.order = "ValueError"]
            /\ UNCHANGED execution_order
       ELSE /\ error' = "none"
            /\ cycle_check' = [cycle_check EXCEPT !.order = "returned"]
            /\ execution_order' = _get_execution_order(runbook)
  /\ lastOp' = "_get_execution_order"
  /\ CyclesUnchanged

NextCycles == HasCycles \/ OrderOrCycleError

SpecCycles == InitCycles /\ [][NextCycles]_vars

(***************************************************************************)
(* _get_execution_order on the runbooks the parser and validate accept:    *)
(* every dependency is a node of the runbook and the graph has no cycle.   *)
(***************************************************************************)
OrderNodeIds == <<"a", "b", "c", "d">>
OrderNodes == {OrderNodeIds[i] : i \in 1..Len(OrderNodeIds)}

\* nodes reached from n along at most two, then at most four dependencies
DependsWithin2(d, n) == d[n] \cup UNION {d[m] : m \in d[n]}
DependsWithin4(d, n) ==
  DependsWithin2(d, n) \cup UNION {DependsWithin2(d, m) : m \in DependsWithin2(d, n)}

AcyclicDependencies ==
  {d \in [OrderNodes -> SUBSET OrderNodes] :
     \A n \in OrderNodes : n \notin DependsWithin4(d, n)}

\* the list depends_on of a node: its dependencies in declaration order, or
\* in the opposite order
RECURSIVE ListOf(_, _, _)
ListOf(S, i, backwards) ==
  IF i > Len(OrderNodeIds) THEN << >>
  ELSE LET id == OrderNodeIds[IF backwards THEN Len(OrderNodeIds) + 1 - i ELSE i]
       IN (IF id \in S THEN <<id>> ELSE << >>) \o ListOf(S, i + 1, backwards)

OrderRunbooks ==
  { [ids |-> OrderNodeIds,
     depends_on |-> [n \in OrderNodes |-> ListOf(d[n], 1, backwards)],
     critical |-> {},
     skip |-> {}] : d \in AcyclicDependencies, backwards \in BOOLEAN }

InitOrder ==
  /\ runbook \in OrderRunbooks
  /\ document = NoDocument
  /\ InitState

GetExecutionOrder ==
  /\ lastOp = "init"
  /\ execution_order' = _get_execution_order(runbook)
  /\ lastOp' = "_get_execution_order"
  /\ UNCHANGED <<runbook, runs, executions, pc, run_info, nodes_to_run, idx,
                 execution, existing_executions_map, max_retries, start_node,
                 error, final_status, start_calls, document, clock,
                 dependencies, parsed_dependencies, dispatch, failing, ports>>

NextOrder == GetExecutionOrder

SpecOrder == InitOrder /\ [][NextOrder]_vars

(***************************************************************************)
(* Vocabulary of the properties: the stores read directly, without the     *)
(* engine's reductions.                                                    *)
(***************************************************************************)
\* the row of the run the model follows
RowOf(rows) == CHOOSE r \in rows : r.workflow_name = Title /\ r.run_id \in RunIdArgs

AttemptsIn(rows, n) ==
  {x \in rows : x.workflow_name = Title /\ x.run_id \in RunIdArgs /\ x.node_id = n}

AttemptNumbersIn(rows, n) == {x.attempt : x \in AttemptsIn(rows, n)}

HasAttemptIn(rows, n) == AttemptsIn(rows, n) # {}

\* the record with the highest attempt (glossary: latest attempt)
LatestIn(rows, n) ==
  CHOOSE x \in AttemptsIn(rows, n) : \A y \in AttemptsIn(rows, n) : y.attempt <= x.attempt

LatestStatusIn(rows, n) ==
  IF HasAttemptIn(rows, n) THEN LatestIn(rows, n).status ELSE "none"

NodesWithLatest(rows, st) == {n \in Nodes : LatestStatusIn(rows, n) = st}

CriticalNokIn(rows) == \E n \in runbook.critical : LatestStatusIn(rows, n) = "nok"

CountSum(r) == r.nodes_ok + r.nodes_nok + r.nodes_skipped

\* the persisted counts are the counts over the latest attempt of each node
CountsOverLatest(r, rows) ==
  /\ r.nodes_ok = Cardinality(NodesWithLatest(rows, "ok"))
  /\ r.nodes_nok = Cardinality(NodesWithLatest(rows, "nok"))
  /\ r.nodes_skipped = Cardinality(NodesWithLatest(rows, "skipped"))

Later(n, m) == NodeRank(n) < NodeRank(m)

(***************************************************************************)
(* C1                                                                      *)
(***************************************************************************)
\* some attempt of a critical node has terminated NOK
CriticalAttemptNokIn(rows) ==
  \E n \in runbook.critical : \E x \in AttemptsIn(rows, n) : x.status = "nok"

C1_RunNokAtOnce ==
  CriticalAttemptNokIn(executions') => RowOf(runs').status = "nok"

C1_NoLaterAttempt ==
  \A n \in runbook.critical : \A m \in Nodes :
    (Later(n, m) /\ \E x \in AttemptsIn(executions, n) : x.status = "nok")
      => AttemptNumbersIn(executions', m) \subseteq AttemptNumbersIn(executions, m)

C1_LeavesFailureHandling ==
  (pc = "failure" /\ nodes_to_run[idx] \in runbook.critical /\ pc' # "failure")
    => \/ pc' = "final" /\ executions' = executions
       \/ pc' = "aggregate" /\ LatestStatusIn(executions', nodes_to_run[idx]) = "ok"

\* the wrapper's last update_run_status with a critical node's latest attempt NOK
C1_FinalAggregation ==
  (pc = "final" /\ pc' = "idle" /\ CriticalNokIn(executions))
    => /\ executions' = executions
       /\ RowOf(runs').status = "nok"
       /\ RowOf(runs').end_time = Now
       /\ CountsOverLatest(RowOf(runs'), executions)

AllowedTransition(from, to, op) ==
  \/ from = to
  \/ from = "running" /\ to \in {"ok", "nok", "aborted"}
  \/ from = "aborted" /\ to = "running" /\ op = "resume"

\* C2 as stated: the persisted run status changes only along RUNNING->OK,
\* RUNNING->NOK, RUNNING->ABORTED and, through resume_run, ABORTED->RUNNING;
\* OK and NOK are final.
C2_Original ==
  [][runs # {} => AllowedTransition(RowOf(runs).status, RowOf(runs').status, lastOp')]_vars

(***************************************************************************)
(* C3                                                                      *)
(***************************************************************************)
\* C3: for every node of the run the attempt numbers of the persisted records
\* are exactly 1..k, one record per number.
C3_AttemptsContiguous ==
  \A n \in Nodes :
    /\ AttemptNumbersIn(executions, n) = 1..Cardinality(AttemptsIn(executions, n))
    /\ \A x \in executions : x.node_id \in Nodes

\* a node retried and later resumed in its latest record
C3_Witness ==
  /\ lastOp = "resume_node_execution"
  /\ AttemptNumbersIn(executions, execution.node_id) = {1, 2}
  /\ \E n \in Nodes : LatestStatusIn(executions, n) = "skipped"

(***************************************************************************)
(* C4                                                                      *)
(***************************************************************************)
\* the retry that ends OK as attempt 2 after attempt 1 ended NOK
C4_RetrySucceeds ==
  /\ lastOp' = "execute_node_retry"
  /\ error' = "none"
  /\ execution'.attempt = 2
  /\ execution'.status = "ok"
  /\ LatestIn(executions, execution'.node_id).attempt = 1
  /\ LatestIn(executions, execution'.node_id).status = "nok"

C4_TwoRows ==
  C4_RetrySucceeds =>
    /\ AttemptNumbersIn(executions', execution'.node_id) = {1, 2}
    /\ Cardinality(AttemptsIn(executions', execution'.node_id)) = 2
    /\ AttemptsIn(executions, execution'.node_id) \subseteq executions'
    /\ \A x \in AttemptsIn(executions', execution'.node_id) :
         x.attempt = 1 => x.status = "nok"

\* the aggregation that follows the successful retry
C4_CountedOnce ==
  (/\ pc = "aggregate"
   /\ execution.attempt = 2
   /\ execution.status = "ok"
   /\ \E x \in AttemptsIn(executions, execution.node_id) :
        x.attempt = 1 /\ x.status = "nok"
   /\ pc' # "aggregate")
    => /\ CountsOverLatest(RowOf(runs'), executions')
       /\ execution.node_id \in NodesWithLatest(executions', "ok")
       /\ execution.node_id \notin NodesWithLatest(executions', "nok")
       /\ Cardinality(AttemptsIn(executions', execution.node_id)) = 2

\* C4: after attempt 1 NOK and a retry whose attempt 2 ends OK, the node has
\* exactly the rows 1 and 2, row 1 is unchanged and NOK, and update_run_status
\* counts the node once, as OK, and not in nodes_nok.
C4_RetryAppends == [][C4_TwoRows /\ C4_CountedOnce]_vars

C4_Witness ==
  /\ lastOp = "update_run_status"
  /\ execution.attempt = 2
  /\ execution.status = "ok"
  /\ \E x \in AttemptsIn(executions, execution.node_id) :
       x.attempt = 1 /\ x.status = "nok"
  /\ RowOf(runs).nodes_ok = 1
  /\ RowOf(runs).nodes_nok = 0
  /\ RowOf(runs).trigger = "run"

(***************************************************************************)
(* C5                                                                      *)
(***************************************************************************)
\* the wrapper takes up the next selected node of a resumed run
C5_ResumedNodeStep ==
  /\ pc = "execute"
  /\ run_info.trigger = "resume"
  /\ pc' # "execute"
  /\ error' = "none"

\* C5 as stated: on resume a node whose latest attempt is NOK is re-attempted
\* in a new record numbered latest+1 and its failed record stays, a node that
\* never ran gets attempt 1, and the records of nodes whose latest attempt is
\* OK are preserved.
C5_Original ==
  [][C5_ResumedNodeStep =>
       LET n == nodes_to_run[idx]
       IN /\ LatestStatusIn(executions, n) = "nok" =>
               /\ AttemptNumbersIn(executions', n) =
                    AttemptNumbersIn(executions, n)
                      \cup {LatestIn(executions, n).attempt + 1}
               /\ AttemptsIn(executions, n) \subseteq executions'
          /\ ~HasAttemptIn(executions, n) => AttemptNumbersIn(executions', n) = {1}
          /\ \A m \in NodesWithLatest(executions, "ok") :
               AttemptsIn(executions', m) = AttemptsIn(executions, m)]_vars

(***************************************************************************)
(* C6                                                                      *)
(***************************************************************************)
NotDone(n) == LatestStatusIn(executions, n) \notin {"ok", "skipped"}

StartIndex(order) ==
  IF start_node = NoStartNode THEN 1
  ELSE CHOOSE i \in 1..Len(order) : order[i] = start_node

ExpectedSelection ==
  LET order == _get_execution_order(runbook)
  IN SelectSeq(SubSeq(order, StartIndex(order), Len(order)), NotDone)

\* C6: a resume selects exactly the nodes of the execution order from the start
\* index on whose latest attempt is missing or neither OK nor SKIPPED, in
\* order; an unknown start node is an error and selects nothing.
C6_ResumeSelection ==
  (lastOp = "resume" /\ error # "ValueError") =>
    IF start_node # NoStartNode /\ start_node \notin Nodes
      THEN error = "ExecutionError" /\ nodes_to_run = << >> /\ pc = "idle"
      ELSE error = "none" /\ nodes_to_run = ExpectedSelection

\* scenario S6 with a retried first node: a NOK then OK, b NOK, c not run
C6_Witness ==
  /\ lastOp = "resume"
  /\ start_node = NoStartNode
  /\ nodes_to_run = <<"b", "c">>
  /\ AttemptNumbersIn(executions, "a") = {1, 2}
  /\ LatestStatusIn(executions, "b") = "nok"
  /\ ~HasAttemptIn(executions, "c")

(***************************************************************************)
(* C7                                                                      *)
(***************************************************************************)
\* C7: resume_run on an OK or NOK run raises and leaves the run record (and
\* everything else) unchanged; on a RUNNING or ABORTED run it succeeds and the
\* persisted status is RUNNING afterwards.
C7_ResumeRun ==
  [][(lastOp' = "resume" /\ runs # {}) =>
       /\ RowOf(runs).status \in {"ok", "nok"} =>
            /\ error' = "ValueError"
            /\ runs' = runs
            /\ executions' = executions
            /\ pc' = "idle"
       /\ RowOf(runs).status \in {"running", "aborted"} =>
            /\ error' # "ValueError"
            /\ RowOf(runs').status = "running"]_vars

C7_Witness ==
  /\ lastOp = "resume"
  /\ error = "ValueError"
  /\ runs # {}
  /\ RowOf(runs).status = "ok"

(***************************************************************************)
(* C8                                                                      *)
(***************************************************************************)
\* C8 as stated: after a successful resume_run the run record read back from
\* the runs store has trigger RESUME.
C8_Original ==
  (lastOp = "resume" /\ error # "ValueError" /\ runs # {})
    => RowOf(runs).trigger = "resume"

(***************************************************************************)
(* C9                                                                      *)
(***************************************************************************)
Terminal == {"ok", "nok", "skipped"}

ExpectedRunStatus(rows) ==
  IF CriticalNokIn(rows) THEN "nok"
  ELSE IF \A n \in Nodes : LatestStatusIn(rows, n) \in Terminal
    THEN (IF NodesWithLatest(rows, "nok") # {} THEN "nok" ELSE "ok")
  ELSE "running"

\* C9: update_run_status returns NOK when a critical node's latest attempt is
\* NOK; otherwise, when every node's latest attempt is OK, NOK or SKIPPED, NOK
\* if one is NOK and OK if none is; otherwise RUNNING, setting no end_time.
\* Only the latest attempt of a node counts.
C9_Aggregation ==
  [][lastOp' \in {"update_run_status", "final_update_run_status"} =>
       /\ final_status' = ExpectedRunStatus(executions)
       /\ executions' = executions
       /\ final_status' = "running" => RowOf(runs').end_time = run_info.end_time
       /\ final_status' # "running" =>
            /\ RowOf(runs').status = final_status'
            /\ RowOf(runs').end_time = Now]_vars

\* OK is returned although an earlier attempt of a node is NOK
C9_Witness ==
  /\ lastOp = "update_run_status"
  /\ final_status = "ok"
  /\ \E x \in executions : x.status = "nok"

(***************************************************************************)
(* C10                                                                     *)
(***************************************************************************)
\* C10 as stated: the persisted counts add up to at most the number of nodes,
\* and when they add up to that number the run is not RUNNING.
C10_Original ==
  \A r \in runs :
    /\ CountSum(r) <= Cardinality(Nodes)
    /\ CountSum(r) = Cardinality(Nodes) => r.status # "running"

(***************************************************************************)
(* C11                                                                     *)
(***************************************************************************)
\* C11 as stated: in the runs store a run that is OK or NOK has end_time set
\* and a run that is RUNNING has end_time null, also after a resume and after
\* set-status.
C11_Original ==
  \A r \in runs :
    /\ r.status \in {"ok", "nok"} => r.end_time # None
    /\ r.status = "running" => r.end_time = None

(***************************************************************************)
(* C12                                                                     *)
(***************************************************************************)
\* the workflow wrapper has returned without an exception
WrapperReturned ==
  /\ pc = "idle"
  /\ error = "none"
  /\ lastOp \in {"run", "resume", "final_update_run_status"}
  /\ runs # {}

\* C12 as stated: when the wrapper returns, the run it drove is OK, NOK or
\* ABORTED with end_time set; it is never left RUNNING.
C12_Original ==
  WrapperReturned =>
    /\ RowOf(runs).status \in {"ok", "nok", "aborted"}
    /\ RowOf(runs).end_time # None

(***************************************************************************)
(* C13                                                                     *)
(***************************************************************************)
\* C13 as stated: after an abort (chosen by the operator or forced by a
\* critical node out of retries) no further node is attempted, the persisted
\* status is ABORTED when the wrapper returns, and it stays ABORTED until
\* resume_run.
C13_Original ==
  [][/\ (lastOp = "abort" /\ pc = "final" /\ pc' = "idle") =>
          /\ executions' = executions
          /\ RowOf(runs').status = "aborted"
     /\ (runs # {} /\ pc = "idle" /\ RowOf(runs).status = "aborted"
           /\ lastOp' # "resume") =>
          RowOf(runs').status = "aborted"]_vars

(***************************************************************************)
(* C14                                                                     *)
(***************************************************************************)
\* another process has set the run ABORTED while the executor, which has not
\* aborted it itself, is about to call update_run_status
AbortedOutOfBand ==
  /\ pc \in {"aggregate", "final"}
  /\ run_info.status = "running"
  /\ RowOf(runs).status = "aborted"

\* C14 as stated: when the run was set ABORTED out of band, the executor's next
\* update_run_status leaves the persisted status ABORTED and the executor
\* starts no further node.
C14_Original ==
  [][(AbortedOutOfBand
        /\ lastOp' \in {"update_run_status", "final_update_run_status"}) =>
       /\ RowOf(runs').status = "aborted"
       /\ pc' # "execute"]_vars

(***************************************************************************)
(* C15                                                                     *)
(***************************************************************************)
RunsOf(rows, wf) == {r \in rows : r.workflow_name = wf}

\* the row r is new and numbered one above the runs of its own workflow
NewRunNumbered(r) ==
  /\ r \notin runs
  /\ runs' = runs \cup {r}
  /\ r.run_id = IF RunsOf(runs, r.workflow_name) = {} THEN 1
                ELSE 1 + MaxOf({x.run_id : x \in RunsOf(runs, r.workflow_name)})
  /\ \A x \in RunsOf(runs, r.workflow_name) : x.run_id < r.run_id

\* C15: every run row that is created gets the maximum run_id of the rows of
\* its own workflow plus 1 (1 for the first), whatever rows other workflows
\* have; it is greater than the run_id of every earlier run of the workflow,
\* and no two rows share (workflow_name, run_id).
C15_RunIdAllocation ==
  [][runs' # runs =>
       /\ \E r \in runs' : NewRunNumbered(r)
       /\ \A x, y \in runs' :
            (x.workflow_name = y.workflow_name /\ x.run_id = y.run_id) => x = y]_vars

\* two runs of one workflow and, created between them, a run of another
C15_Witness ==
  /\ {<<r.workflow_name, r.run_id>> : r \in runs} =
       {<<Title, 1>>, <<"other", 1>>, <<Title, 2>>}
  /\ \E p \in Callers :
       /\ start_calls[p].pc = "returned"
       /\ start_calls[p].workflow_name = Title
       /\ start_calls[p].run_id = 2

(***************************************************************************)
(* C16                                                                     *)
(***************************************************************************)
\* C16 as stated: start_run calls that interleave on one workflow all
\* complete, and their runs get different run_ids.
C16_Original ==
  /\ \A p \in Callers : start_calls[p].pc \in {"idle", "selected", "returned"}
  /\ \A p, q \in Callers :
       (/\ p # q
        /\ start_calls[p].pc = "returned"
        /\ start_calls[q].pc = "returned"
        /\ start_calls[p].workflow_name = start_calls[q].workflow_name)
         => start_calls[p].run_id # start_calls[q].run_id

(***************************************************************************)
(* C17                                                                     *)
(***************************************************************************)
PositionsOf(seq, n) == {i \in 1..Len(seq) : seq[i] = n}

\* C17: for a runbook whose dependencies resolve and have no cycle, the list
\* _get_execution_order returns holds every node exactly once, and every node
\* after each node of its depends_on.
C17_TopologicalOrder ==
  lastOp = "_get_execution_order" =>
    /\ \A n \in OrderNodes : Cardinality(PositionsOf(execution_order, n)) = 1
    /\ Len(execution_order) = Cardinality(OrderNodes)
    /\ \A n \in OrderNodes :
         \A k \in 1..Len(runbook.depends_on[n]) :
           \A i \in PositionsOf(execution_order, n) :
             \A j \in PositionsOf(execution_order, runbook.depends_on[n][k]) : j < i

\* the first declared node depends on the last two, and b stands alone
C17_Witness ==
  /\ lastOp = "_get_execution_order"
  /\ runbook.depends_on["a"] = <<"d", "c">>
  /\ runbook.depends_on["b"] = << >>
  /\ runbook.depends_on["c"] = <<"d">>
  /\ runbook.depends_on["d"] = << >>
  /\ execution_order = <<"d", "c", "a", "b">>

(***************************************************************************)
(* C18                                                                     *)
(***************************************************************************)
DependenciesOf(n) == {runbook.depends_on[n][k] : k \in 1..Len(runbook.depends_on[n])}

\* the step creates the first attempt record of node n
FirstAttemptOf(n) == ~HasAttemptIn(executions, n) /\ HasAttemptIn(executions', n)

\* C18 as stated: in a fresh run, a resumed run and a run resumed from a named
\* start node alike, the first attempt record of a node is not created before
\* the first attempt record of each node of its depends_on.
C18_Original ==
  [][\A n \in Nodes :
       FirstAttemptOf(n) =>
         \A m \in DependenciesOf(n) : HasAttemptIn(executions, m)]_vars

(***************************************************************************)
(* C19                                                                     *)
(***************************************************************************)
\* a fresh run in which so far every command has exited 0: no attempt has
\* failed and nothing was skipped
AllCommandsSucceed ==
  /\ run_info.trigger = "run"
  /\ runbook.skip = {}
  /\ \A x \in executions : x.status = "ok"

\* attempts are created in declaration order
C19_InDeclarationOrder ==
  \A n \in Nodes :
    (AllCommandsSucceed /\ FirstAttemptOf(n)) =>
      \A m \in Nodes : NodeRank(m) < NodeRank(n) => HasAttemptIn(executions, m)

\* the wrapper returns from the fresh run
C19_EndsOk ==
  (AllCommandsSucceed /\ pc = "final" /\ pc' = "idle") =>
    /\ \A n \in Nodes :
         /\ Cardinality(AttemptsIn(executions', n)) = 1
         /\ LatestStatusIn(executions', n) = "ok"
    /\ final_status' = "ok"
    /\ RowOf(runs').status = "ok"
    /\ RowOf(runs').nodes_ok = Cardinality(Nodes)
    /\ RowOf(runs').nodes_nok = 0
    /\ RowOf(runs').nodes_skipped = 0

\* C19: in a fresh run of a, b, c declared without depends_on in which every
\* command exits 0, the attempts are created in the order a, b, c, each node
\* ends with exactly one attempt, which is OK, and the run ends OK with
\* nodes_ok equal to the number of nodes.
C19_LinearRunSucceeds == [][C19_InDeclarationOrder /\ C19_EndsOk]_vars

C19_Witness ==
  /\ lastOp = "final_update_run_status"
  /\ final_status = "ok"
  /\ \A x \in executions : x.status = "ok" /\ x.attempt = 1
  /\ {x.node_id : x \in executions} = {"a", "b", "c"}
  /\ RowOf(runs).status = "ok"
  /\ RowOf(runs).nodes_ok = 3
  /\ RowOf(runs).trigger = "run"

(***************************************************************************)
(* C20                                                                     *)
(***************************************************************************)
\* the node tables of the file put a condition other than "true" on node n
GatedIn(doc, n) ==
  /\ doc # NoDocument
  /\ node_data_of(doc, NodeRank(n)).has_when
  /\ node_data_of(doc, NodeRank(n)).when # TrueClause

\* the condition of node n of the parsed runbook is false on the executions
WhenFalse(n) ==
  /\ hasattr_when(runbook, n)
  /\ ~_should_execute_node(runbook, n, run_info, executions, "none")

\* the run of a file with a gated node gets as far as the gated node
C20_GateReachesEngine ==
  \A n \in Nodes :
    (GatedIn(document, n) /\ lastOp' = "parse") =>
      /\ error' = "none"
      /\ hasattr_when(runbook', n)

\* execute_node on a node whose condition is false
C20_SkippedAttempt ==
  \A n \in Nodes :
    (WhenFalse(n) /\ pc = "execute" /\ nodes_to_run[idx] = n
       /\ lastOp' = "execute_node") =>
      /\ AttemptsIn(executions', n) \ AttemptsIn(executions, n) = {LatestIn(executions', n)}
      /\ LatestIn(executions', n).attempt = 1
      /\ LatestStatusIn(executions', n) = "skipped"

\* C20 as stated: a node whose `when` evaluates to false at execution time
\* gets exactly one attempt record, SKIPPED, is never dispatched and counts
\* in nodes_skipped; a run whose second node is gated by a false condition
\* ends OK with nodes_skipped = 1. That takes a gated node of the file to
\* arrive at execute_node with its condition.
C20_Original == [][C20_GateReachesEngine /\ C20_SkippedAttempt]_vars

(***************************************************************************)
(* C21                                                                     *)
(***************************************************************************)
\* node n of the file is declared with depends_on ["m:success"]
DeclaredOnSuccessOf(doc, n, m) ==
  /\ doc # NoDocument
  /\ doc.node_data[n].has_depends_on
  /\ doc.node_data[n].depends_on = <<[node_id |-> m, condition |-> "success"]>>

\* the file is accepted and the node keeps the condition made of its dependency
C21_ConditionKept ==
  \A n \in Nodes, m \in Nodes :
    (DeclaredOnSuccessOf(document, n, m) /\ lastOp' = "parse") =>
      /\ error' = "none"
      /\ hasattr_when(runbook', n)
      /\ runbook'.when[n] = {has_succeeded(m)}

\* execute_node on n skips exactly when the attempt of m with the highest
\* attempt number is not OK
C21_DecidedByLatest ==
  \A n \in Nodes, m \in Nodes :
    (DeclaredOnSuccessOf(document, n, m) /\ pc = "execute" /\ nodes_to_run[idx] = n
       /\ n \notin runbook.skip /\ lastOp' = "execute_node" /\ error' = "none") =>
      (LatestStatusIn(executions', n) = "skipped"
         <=> ~(HasAttemptIn(executions, m) /\ LatestStatusIn(executions, m) = "ok"))

\* C21 as stated: has_succeeded(id) and has_failed(id) are decided by the
\* attempt of id with the highest attempt number of the run: a node declared
\* with depends_on ["test:success"] is skipped when test's latest attempt is
\* NOK and runs when it is OK, also after a NOK attempt followed by an OK retry.
C21_Original == [][C21_ConditionKept /\ C21_DecidedByLatest]_vars

(***************************************************************************)
(* C22                                                                     *)
(***************************************************************************)
\* the condition the file puts on node n raises when it is evaluated
RaisingIn(doc, n) ==
  /\ doc # NoDocument
  /\ doc.node_data[n].has_when
  /\ evaluate_raises(doc.node_data[n].when)

\* C22 as stated: when evaluating the `when` of a node raises, the node is
\* executed and not skipped: its attempt is created and the node dispatched as
\* if the condition had been true. The node of the file arrives at
\* execute_node with its condition, and execute_node leaves an attempt that
\* has been dispatched.
C22_Original ==
  [][\A n \in Nodes :
       /\ (RaisingIn(document, n) /\ lastOp' = "parse") =>
            (error' = "none" /\ hasattr_when(runbook', n))
       /\ (RaisingIn(document, n) /\ pc = "execute" /\ nodes_to_run[idx] = n
             /\ n \notin runbook.skip /\ lastOp' = "execute_node" /\ error' = "none") =>
            LatestStatusIn(executions', n) \in {"ok", "nok"}]_vars

(***************************************************************************)
(* C23                                                                     *)
(***************************************************************************)
DependenciesIn(rb, n) == {rb.depends_on[n][k] : k \in 1..Len(rb.depends_on[n])}

\* n reaches itself along one, two or three dependencies
OnCycle(rb, n) ==
  \/ n \in DependenciesIn(rb, n)
  \/ \E m \in Nodes : m \in DependenciesIn(rb, n) /\ n \in DependenciesIn(rb, m)
  \/ \E m \in Nodes, l \in Nodes :
       /\ m \in DependenciesIn(rb, n)
       /\ l \in DependenciesIn(rb, m)
       /\ n \in DependenciesIn(rb, l)

Invalid(rb) ==
  \/ \E n \in Nodes : DependenciesIn(rb, n) \ Nodes # {}
  \/ \E n \in Nodes : OnCycle(rb, n)

\* a start_run call on an invalid runbook raises and leaves the runs alone
C23_InvalidRejected ==
  (lastOp' = "start_run" /\ Invalid(runbook')) =>
    (error' = "ValueError" /\ runs' = runs)

\* a start_run call on any other runbook adds the run numbered as if the
\* failed calls had not been made: the run_ids in use stay 1..n
C23_NoIdConsumed ==
  (lastOp' = "start_run" /\ ~Invalid(runbook')) =>
    /\ error' = "none"
    /\ Cardinality(runs') = Cardinality(runs) + 1
    /\ RunIdsOf(runs', Title) = 1..Cardinality(runs')

C27_Original ==
  (lastOp = "start_run" /\ error = "none") =>
    runbook.critical \cap runbook.skip = {}

(***************************************************************************)
(* C24                                                                     *)
(***************************************************************************)
TerminalRecord(x) == x.status \in {"ok", "nok", "skipped"}

\* C24 as stated: an attempt record is written to a terminal status exactly
\* once: once its status is OK, NOK or SKIPPED no later operation (retry,
\* resume, skip, abort) changes any field of it.
C24_Original ==
  [][\A x \in executions : TerminalRecord(x) => x \in executions']_vars

(***************************************************************************)
(* C25                                                                     *)
(***************************************************************************)
\* the operator chooses skip for the failed node in this step
SkipChosen == pc = "failure" /\ lastOp' = "skip"

\* the latest attempt of the node becomes SKIPPED, no record is added, and
\* the loop goes on to the aggregation that ends the loop body
C25_LatestBecomesSkipped ==
  SkipChosen =>
    LET n == nodes_to_run[idx]
    IN /\ executions' =
            (executions \ {LatestIn(executions, n)})
              \cup {[LatestIn(executions, n) EXCEPT !.status = "skipped"]}
       /\ LatestIn(executions, n).status = "nok"
       /\ LatestStatusIn(executions', n) = "skipped"
       /\ pc' = "aggregate"

\* the aggregation after the skip counts the node as skipped and moves on
C25_CountedSkipped ==
  (pc = "aggregate" /\ pc' # "aggregate" /\ execution.status = "skipped"
     /\ nodes_to_run[idx] \notin runbook.skip) =>
    LET n == nodes_to_run[idx]
    IN /\ n \in NodesWithLatest(executions', "skipped")
       /\ n \notin NodesWithLatest(executions', "nok")
       /\ run_info'.nodes_skipped = Cardinality(NodesWithLatest(executions', "skipped"))
       /\ run_info'.nodes_nok = Cardinality(NodesWithLatest(executions', "nok"))
       /\ idx' = idx + 1
       /\ pc' = IF idx < Len(nodes_to_run) THEN "execute" ELSE "final"

\* C25: when the operator chooses skip after a node that is not critical
\* failed, the node's latest attempt record becomes SKIPPED and no record is
\* created, execution proceeds with the next node, and the aggregation counts
\* the node in nodes_skipped and not in nodes_nok.
C25_SkipAfterFailure == [][C25_LatestBecomesSkipped /\ C25_CountedSkipped]_vars

C25_Witness ==
  /\ lastOp = "update_run_status"
  /\ execution.status = "skipped"
  /\ execution.node_id = "c"
  /\ "c" \notin runbook.skip
  /\ AttemptNumbersIn(executions, "c") = {1, 2}
  /\ LatestStatusIn(executions, "c") = "skipped"
  /\ run_info.nodes_skipped = 1
  /\ run_info.nodes_nok = 0

(***************************************************************************)
(* C26                                                                     *)
(***************************************************************************)
\* the step is a call of update_run_status that follows another call
SecondCall == lastOp = "update_run_status" /\ lastOp' = "update_run_status"

\* C26 as stated: update_run_status called twice with no attempt record
\* created or changed in between yields the same returned status, the same
\* persisted status and end_time and the same persisted counts as called once.
C26_Original ==
  [][SecondCall => (final_status' = final_status /\ RowOf(runs') = RowOf(runs))]_vars

\* C26 amended: the returned status, the persisted status and the persisted
\* counts are those of the first call; end_time is set again, to the time of
\* the later call, whenever the returned status is OK or NOK.
C26_Idempotent ==
  [][SecondCall =>
       /\ final_status' = final_status
       /\ RowOf(runs').status = RowOf(runs).status
       /\ RowOf(runs').nodes_ok = RowOf(runs).nodes_ok
       /\ RowOf(runs').nodes_nok = RowOf(runs).nodes_nok
       /\ RowOf(runs').nodes_skipped = RowOf(runs).nodes_skipped
       /\ RowOf(runs').end_time =
            (IF final_status' \in {"ok", "nok"} THEN Times[clock']
                                               ELSE RowOf(runs).end_time)]_vars

\* the second call on a run whose three nodes have ended, one after a retry
C26_Witness ==
  /\ lastOp = "update_run_status"
  /\ clock = 2
  /\ final_status = "ok"
  /\ RowOf(runs).status = "ok"
  /\ RowOf(runs).end_time = Times[2]
  /\ RowOf(runs).nodes_ok = 2
  /\ RowOf(runs).nodes_skipped = 1
  /\ AttemptNumbersIn(executions, "b") = {1, 2}

(***************************************************************************)
(* C28                                                                     *)
(***************************************************************************)
EntriesWith(deps, cond) == {i \in 1..Len(deps) : deps[i].condition = cond}

\* C28: conditional-dependency rewriting is a function of the depends_on
\* list: every entry id:success or id:failure is replaced by id in the same
\* position, entries without a suffix are kept, and the resulting when has
\* has_succeeded("id") for each id:success and has_failed("id") for each
\* id:failure as its conjuncts, "true" when there is no suffix at all; any
\* other suffix is an error.
C28_Rewriting ==
  lastOp = "parse_dependencies" =>
    IF \E i \in 1..Len(dependencies) :
         dependencies[i].condition \notin {"none", "success", "failure"}
      THEN error = "ValueError"
      ELSE /\ error = "none"
           /\ Len(parsed_dependencies.node_ids) = Len(dependencies)
           /\ \A i \in 1..Len(dependencies) :
                parsed_dependencies.node_ids[i] = dependencies[i].node_id
           /\ parsed_dependencies.when_clause =
                {has_succeeded(dependencies[i].node_id) :
                   i \in EntriesWith(dependencies, "success")}
                \cup {has_failed(dependencies[i].node_id) :
                        i \in EntriesWith(dependencies, "failure")}

\* ["a:success", "b"] gives ["a", "b"] and has_succeeded("a")
C28_Witness ==
  /\ lastOp = "parse_dependencies"
  /\ dependencies = <<[node_id |-> "a", condition |-> "success"],
                      [node_id |-> "b", condition |-> "none"]>>
  /\ parsed_dependencies.node_ids = <<"a", "b">>
  /\ parsed_dependencies.when_clause = {has_succeeded("a")}

(***************************************************************************)
(* C29                                                                     *)
(***************************************************************************)
\* the record of executions with the key of the record x
PersistedOf(rows, x) == CHOOSE y \in rows : SameKey(x, y)

C31_Original ==
  [][dispatch' = "rejected"
       => /\ PersistedOf(executions', execution').status = "nok"
          /\ PersistedOf(executions', execution').operator_decision = "rejected"]_vars

(***************************************************************************)
(* C32                                                                     *)
(***************************************************************************)
PrePromptPassed == command_node.prompt_before = "" \/ io.before

Asked(prompt) ==
  \E i \in 1..Len(command_execution.calls) : command_execution.calls[i] = prompt

\* C32: for a Command node attempt whose pre-prompt was accepted or empty, the
\* status is OK exactly when the process runner returned exit code 0 and
\* prompt_after is empty or was accepted, and NOK otherwise; prompt_after is
\* asked only after exit code 0, never after another exit code.
C32_CommandStatus ==
  (lastOp = "_execute_command_node" /\ PrePromptPassed)
    => /\ command_execution.status \in {"ok", "nok"}
       /\ command_execution.status = "ok"
            <=> /\ ~io.raises
                /\ io.exit_code = 0
                /\ (command_node.prompt_after = "" \/ io.after)
       /\ Asked("prompt_after") => (~io.raises /\ io.exit_code = 0)
       /\ Asked("run_command")

C32_Witness ==
  /\ lastOp = "_execute_command_node"
  /\ PrePromptPassed
  /\ command_node.prompt_after # ""
  /\ io.exit_code = 1
  /\ ~io.raises
  /\ io.after
  /\ command_execution.status = "nok"

(***************************************************************************)
(* C33                                                                     *)
(***************************************************************************)
\* C33 as stated: for every Function node execution, the plugin instance that
\* runs the function has been initialized with that node's plugin_config.
C33_Original ==
  (lastOp = "_execute_plugin_function" /\ error = "none")
    => plugin_call.instance.config = plugin_call.config

(***************************************************************************)
(* C34                                                                     *)
(***************************************************************************)
\* C34 as stated: after a successful get_plugin(name), every later
\* get_plugin(name) returns that same instance without initializing again.
C34_Original ==
  [][(/\ lastOp' = "get_plugin"
      /\ error' = "none"
      /\ initializations[plugin_call'.name] >= 1)
       => /\ plugin_call'.instance.id = 1
          /\ initializations' = initializations]_vars

\* C34, amended: the registry holds at most one cached instance per name;
\* while a name is cached, which it is from a successful get_plugin(name)
\* until cleanup_all or reload_plugin(name), every get_plugin(name) returns the
\* cached instance without initializing again; a get_plugin whose
\* initialization fails caches nothing, and a get_plugin of a registered name
\* that is not cached initializes a fresh instance.
C34_OneCachedInstance ==
  [][lastOp' = "get_plugin"
       => LET name == plugin_call'.name
          IN /\ \A n \in DOMAIN plugins' : plugins'[n].name = n
             /\ Cached(plugins, name)
                  => /\ error' = "none"
                     /\ plugin_call'.instance = plugins[name]
                     /\ plugins' = plugins
                     /\ initializations' = initializations
             /\ error' = "PluginInitializationError"
                  => /\ plugins' = plugins
                     /\ ~Cached(plugins', name)
             /\ (~Cached(plugins, name) /\ error' = "none")
                  => /\ plugin_call'.instance.id = initializations[name] + 1
                     /\ plugin_call'.instance.config = plugin_call'.config
                     /\ plugins' = Put(plugins, name, plugin_call'.instance)]_vars

\* get_plugin returned the instance an earlier call had initialized
C34_Witness ==
  /\ lastOp = "get_plugin"
  /\ error = "none"
  /\ initializations[plugin_call.name] = 1
  /\ plugin_call.instance.config # plugin_call.config

(***************************************************************************)
(* C35                                                                     *)
(***************************************************************************)
\* C35 as stated: when retry_node_execution returns, a record with the number
\* of each attempt it ran exists in the executions store, and the record it
\* returns equals the stored latest attempt of the node.
C35_Original ==
  (lastOp = "retry_node_execution" /\ error = "none")
    => /\ \A k \in retried.attempts :
            \E e \in executions : e.node_id = RetriedNode /\ e.attempt = k
       /\ retried.execution =
            get_latest_execution_attempt(executions, Title, run_info.run_id,
                                         RetriedNode)

(***************************************************************************)
(* C36                                                                     *)
(***************************************************************************)
\* the records of executions' whose key is not in executions
Created == {e \in executions' : ~KeyExists(executions, e)}

\* the status of the latest attempt of node n in the run of the record e
LatestStatusBeside(rows, e, n) ==
  get_latest_execution_attempt(rows, e.workflow_name, e.run_id, n).status

\* C36: in a run or resume of the workflow wrapper without a start node,
\* whenever an attempt of a node is created, the latest attempt of every node
\* in its depends_on is OK or SKIPPED: the wrapper never advances past a node
\* whose latest attempt is NOK.
C36_DependenciesSettled ==
  [][start_node = NoStartNode
       => \A e \in Created : \A d \in DependenciesOf(e.node_id) :
            LatestStatusBeside(executions, e, d) \in {"ok", "skipped"}]_vars

\* the first attempt of c is created after the operator skipped the failed b
C36_Witness ==
  /\ lastOp = "execute_node"
  /\ start_node = NoStartNode
  /\ pc # "idle"
  /\ execution.node_id = "c"
  /\ execution.attempt = 1
  /\ LatestStatusBeside(executions, execution, "b") = "skipped"
  /\ AttemptNumbersIn(executions, "b") = {1}
  /\ "b" \notin runbook.skip

(***************************************************************************)
(* C37                                                                     *)
(***************************************************************************)
\* the failure handling of the wrapper is at a node that is out of retries
OutOfRetries == pc = "failure" /\ current_attempt >= max_retries

\* C37: under the workflow wrapper with max_retries = m >= 1, an invocation
\* makes no attempt record numbered above m: a retry is run only while the
\* latest attempt number is below m, and once it reaches m only skip or abort
\* remain (abort only, for a critical node).
C37_RetriesBounded ==
  [][(pc # "idle" /\ max_retries >= 1)
       => /\ \A e \in Created : e.attempt <= max_retries
          /\ lastOp' = "execute_node_retry" => current_attempt < max_retries
          /\ OutOfRetries => lastOp' \in {"skip", "abort"}
          /\ (OutOfRetries /\ nodes_to_run[idx] \in runbook.critical)
               => lastOp' = "abort"]_vars

\* the retry that uses up the last attempt failed: the node is out of retries
C37_Witness ==
  /\ OutOfRetries
  /\ max_retries = MaxRetriesOption
  /\ lastOp = "execute_node_retry"
  /\ execution.attempt = max_retries
  /\ execution.status = "nok"

(***************************************************************************)
(* C38                                                                     *)
(***************************************************************************)
NodeOperations == {"execute_node", "execute_node_retry", "resume_node_execution"}

\* C38: when execute_node, execute_node_retry or resume_node_execution returns
\* normally, the persisted record of the attempt it worked on has status OK,
\* NOK or SKIPPED and an end_time: a completed operation leaves no attempt
\* RUNNING or PENDING.
C38_AttemptEnded ==
  [][(lastOp' \in NodeOperations /\ error' = "none")
       => /\ KeyExists(executions', execution')
          /\ PersistedOf(executions', execution').status \in {"ok", "nok", "skipped"}
          /\ PersistedOf(executions', execution').end_time # None]_vars

\* a resumed attempt whose work raised has ended NOK
C38_Witness ==
  /\ lastOp = "resume_node_execution"
  /\ error = "none"
  /\ dispatch = "raises"
  /\ PersistedOf(executions, execution).status = "nok"
  /\ PersistedOf(executions, execution).end_time # None

(***************************************************************************)
(* C39                                                                     *)
(***************************************************************************)
CurrentIsCritical == pc \in {"execute", "failure"} /\ nodes_to_run[idx] \in runbook.critical

\* C39: no attempt of a critical node is ever set to SKIPPED through
\* skip = true or through the operator's skip choice: execute_node and
\* resume_node_execution refuse a critical node with skip = true without
\* writing a record, and after a critical node failed the only ways forward
\* are a retry or aborting the run.
C39_CriticalNeverSkipped ==
  [][/\ \A e \in executions' : e.node_id \in runbook.critical => e.status # "skipped"
     /\ (pc = "execute" /\ CurrentIsCritical /\ nodes_to_run[idx] \in runbook.skip)
          => /\ error' = "ValueError"
             /\ executions' = executions
     /\ (pc = "failure" /\ CurrentIsCritical)
          => lastOp' \in {"execute_node_retry", "abort"}]_vars

\* execute_node has refused the critical node b, which has skip = true
C39_Witness ==
  /\ lastOp = "execute_node"
  /\ error = "ValueError"
  /\ "b" \in runbook.critical \cap runbook.skip
  /\ LatestStatusIn(executions, "a") = "ok"
  /\ ~HasAttemptIn(executions, "b")

(***************************************************************************)
(* C40                                                                     *)
(***************************************************************************)
BothChecked == cycle_check.has_cycles # "none" /\ cycle_check.order # "none"

\* C40: for every runbook whose depends_on references all resolve,
\* _has_cycles returns true exactly when _get_execution_order raises a cycle
\* error: validate and the ordering never disagree on whether a graph
\* (self-loops included) is cyclic.
C40_SameVerdict ==
  BothChecked
    => (cycle_check.has_cycles = "True" <=> cycle_check.order = "ValueError")

\* both have seen the self-loop of b, which no other node depends on
C40_Witness ==
  /\ BothChecked
  /\ runbook.depends_on["b"] = <<"b">>
  /\ runbook.depends_on["a"] = << >>
  /\ runbook.depends_on["c"] = <<"a">>
  /\ cycle_check.has_cycles = "True"
  /\ cycle_check.order = "ValueError"

====
